---- MODULE Spec2Model ----
(***************************************************************************)
(* Model of deeponto.onto.verbalisation: the RangeNode interval tree, the  *)
(* two-pass OntologySyntaxParser and the recursive OntologyVerbaliser.     *)
(* Python strings that the code inspects character by character are        *)
(* sequences of one-character strings; exception messages are plain        *)
(* strings.                                                                *)
(***************************************************************************)
EXTENDS Integers, Sequences, FiniteSets, TLC

VARIABLES
    nodes,      \* every RangeNode constructed so far, in construction order; nodes[1] is the root
    children,   \* children[n]: the NodeMixin children list of node n
    err,        \* message of the exception that ended the call, "" when none
    pc,         \* position of the running call
    raw_text,   \* the owl_expression argument of parse / verbalise_class_expression
    expr,       \* owl_expression of parse after abbreviation (the text that is scanned)
    i,          \* index of the for loop of parse_by_parentheses (0-based)
    stack,      \* stack of offsets of the unmatched opening brackets
    for_iri,    \* FALSE in the pass over ( ), TRUE in the pass over < >
    closing_warnings,  \* number of "Too many closing parentheses" lines printed
    vocab,      \* OntologyVerbaliser.vocab: identifier -> name
    keep_iri,   \* OntologyVerbaliser.keep_iri
    add_quantifier_word,   \* OntologyVerbaliser.add_quantifier_word
    result,     \* <<r>> once verbalise_class_expression has returned the CfgNode r, else <<>>
    call,       \* the method called last and its arguments (a node argument as its text and its
                \* number), <<>> before the first call of a session
    threads,    \* threads[t]: the local variables of the call that thread t runs, <<>> when
                \* calls are made by one thread
    synonym_groups,   \* argument of Thesaurus.random_negative_sampling: a list of sets of labels
    neg_num,          \* argument of Thesaurus.random_negative_sampling
    neg_sample_pool   \* the local list of random_negative_sampling

treeVars == <<nodes, children, err>>
samplingVars == <<synonym_groups, neg_num, neg_sample_pool>>
scanVars == <<raw_text, expr, i, stack, for_iri, closing_warnings, call, threads, samplingVars>>
verbVars == <<vocab, keep_iri, add_quantifier_word, result>>
vars == <<nodes, children, err, pc, raw_text, expr, i, stack, for_iri, closing_warnings,
          vocab, keep_iri, add_quantifier_word, result, call, threads, samplingVars>>

\* ---------------------------------------------------------------- bounds
MaxPos == 4     \* largest offset of a candidate interval in the insertion model
MaxNodes == 5   \* largest number of RangeNode objects (root included) in the insertion model

\* ---------------------------------------------------------------- constants
Inf == 1000     \* math.inf, the end of the root interval: larger than every offset

NoError == ""
InvalidChild == "invalid child node"
PartialOverlap == "Compared ranges have a partial overlap."
TooManyOpening == "Too many opening parentheses"
NotARestriction == "Input range node is not related to a existential or universal restriction statement."
NotAJunction == "Input range node is not related to a conjunction or disjunction statement."
NotSupported == "Input class expression is not in one of the supported types."
IndexError == "IndexError: tuple index out of range"

\* ---------------------------------------------------------------- evaluation
\* a Python assignment x = v followed by code F that reads x: v is evaluated
\* once, and F works on the value
Bind(v, F(_)) == CHOOSE r \in {F(x) : x \in {v}} : TRUE

\* ---------------------------------------------------------------- text helpers
Digit(d) == CASE d = 0 -> "0" [] d = 1 -> "1" [] d = 2 -> "2" [] d = 3 -> "3" [] d = 4 -> "4"
              [] d = 5 -> "5" [] d = 6 -> "6" [] d = 7 -> "7" [] d = 8 -> "8" [] d = 9 -> "9"

RECURSIVE FormatNat(_)
FormatNat(n) == IF n < 10 THEN <<Digit(n)>> ELSE FormatNat(n \div 10) \o <<Digit(n % 10)>>

\* str() of an offset as the f-string of RangeNode.__init__ prints it
FormatOffset(n) ==
    IF n = Inf THEN <<"i", "n", "f">>
    ELSE IF n < 0 THEN <<"-">> \o FormatNat(0 - n)
    ELSE FormatNat(n)

RootName == <<"R", "o", "o", "t">>

\* ---------------------------------------------------------------- RangeNode
\* RangeNode.__init__ raises when start >= end
RangeNodeValid(start, end) == start < end

RangeNode(start, end, name, text, is_iri) ==
    [start |-> start,
     end |-> end,
     name |-> (IF name = <<>> THEN RootName ELSE name)
                \o <<"@", "[">> \o FormatOffset(start) \o <<":">> \o FormatOffset(end) \o <<"]">>,
     text |-> text,
     is_iri |-> is_iri]

\* RangeNode.__gt__ with the partial-overlap check dropped (mutant)
GtNoOverlapCheck(self, other) ==
    IF self.start <= other.start /\ other.end <= self.end THEN "True"
    ELSE IF other.start <= self.start /\ self.end <= other.end THEN "False"
    ELSE "irrelevant"

\* RangeNode.__gt__: "True", "False", "irrelevant", or "raise" for the RuntimeError
Gt(self, other) ==
    IF self.start <= other.start /\ other.end <= self.end THEN "True"
    ELSE IF other.start <= self.start /\ self.end <= other.end THEN "False"
    ELSE IF other.end < self.start \/ self.end < other.start THEN "irrelevant"
    ELSE "raise"

\* (node < ch) never found True: the candidate is never passed down (mutant)
LtNeverInside(self, other) == IF Gt(other, self) = "True" THEN "False" ELSE Gt(other, self)

\* node < ch: RangeNode has no __lt__, so Python evaluates the reflected ch.__gt__(node)
Lt(self, other) == Gt(other, self)

\* sort_by_start left out (mutant)
NoSortByStart(ns, seq) == seq

\* RangeNode.sort_by_start: stable sort of the node ids of seq by start offset
RECURSIVE SortByStart(_, _)
SortByStart(ns, seq) ==
    IF Len(seq) <= 1 THEN seq
    ELSE Bind(SortByStart(ns, SubSeq(seq, 1, Len(seq) - 1)),
              LAMBDA front :
                  LET last == seq[Len(seq)]
                      keep == {k \in 1..Len(front) : ns[front[k]].start <= ns[last].start}
                      cut == IF keep = {} THEN 0 ELSE CHOOSE k \in keep : \A j \in keep : j <= k
                  IN  SubSeq(front, 1, cut) \o <<last>> \o SubSeq(front, cut + 1, Len(front)))

Remove(seq, x) == SelectSeq(seq, LAMBDA y : y # x)

\* ch.parent = node (NodeMixin): ch leaves the children of its parent and is
\* appended to the children of node
SetParent(t, ch, old, node) ==
    [t EXCEPT !.children = [t.children EXCEPT ![old] = Remove(@, ch),
                                               ![node] = Append(@, ch)]]

Raise(t, msg) == [t EXCEPT !.err = msg]

RECURSIVE InsertChild(_, _, _), InsertLoop(_, _, _, _, _), InsertLoopStopAtFirst(_, _, _, _, _)

\* the for loop with a break after the first child taken over (mutant)
InsertLoopStopAtFirst(t, self, node, snap, k) ==
    IF k > Len(snap)
    THEN [t EXCEPT !.children[self] = SortByStart(t.nodes, Append(t.children[self], node))]
    ELSE LET ch == snap[k]
             lt == Lt(t.nodes[node], t.nodes[ch])
         IN  IF lt = "raise" THEN Raise(t, PartialOverlap)
             ELSE IF lt = "True" THEN InsertChild(t, ch, node)
             ELSE LET gt == Gt(t.nodes[node], t.nodes[ch])
                  IN  IF gt = "raise" THEN Raise(t, PartialOverlap)
                      ELSE IF gt = "True"
                           THEN Bind(SetParent(t, ch, self, node),
                                     LAMBDA moved : InsertLoopStopAtFirst(moved, self, node, snap, Len(snap) + 1))
                           ELSE InsertLoopStopAtFirst(t, self, node, snap, k + 1)

\* the for loop of insert_child over the snapshot snap of self.children, from index k
InsertLoop(t, self, node, snap, k) ==
    IF k > Len(snap)
    THEN \* not inserted: self.children = sort_by_start(list(self.children) + [node])
         [t EXCEPT !.children[self] = SortByStart(t.nodes, Append(t.children[self], node))]
    ELSE LET ch == snap[k]
             lt == Lt(t.nodes[node], t.nodes[ch])
         IN  IF lt = "raise" THEN Raise(t, PartialOverlap)
             ELSE IF lt = "True" THEN InsertChild(t, ch, node)
             ELSE LET gt == Gt(t.nodes[node], t.nodes[ch])
                  IN  IF gt = "raise" THEN Raise(t, PartialOverlap)
                      ELSE IF gt = "True"
                           THEN Bind(SetParent(t, ch, self, node),
                                     LAMBDA moved : InsertLoop(moved, self, node, snap, k + 1))
                           ELSE InsertLoop(t, self, node, snap, k + 1)

\* RangeNode.insert_child: self and node are node ids of t
InsertChild(t, self, node) ==
    LET c == Gt(t.nodes[node], t.nodes[self])
    IN  IF c = "raise" THEN Raise(t, PartialOverlap)
        ELSE IF c # "False" THEN Raise(t, InvalidChild)
        ELSE IF t.nodes[node].start = t.nodes[self].start /\ t.nodes[node].end = t.nodes[self].end
             THEN t
        ELSE IF t.children[self] # <<>>
             THEN InsertLoop(t, self, node, t.children[self], 1)
             ELSE [t EXCEPT !.children[self] = <<node>>]

\* the tree after root.insert_child(n) for a freshly constructed node n
InsertNew(t, n) ==
    Bind([nodes |-> Append(t.nodes, n), children |-> Append(t.children, <<>>), err |-> t.err],
         LAMBDA with_n : InsertChild(with_n, 1, Len(with_n.nodes)))

Tree == [nodes |-> nodes, children |-> children, err |-> err]

\* ---------------------------------------------------------------- tree observers
RECURSIVE Descendants(_, _)
Descendants(ch, n) ==
    {n} \cup UNION {Descendants(ch, ch[n][k]) : k \in 1..Len(ch[n])}

\* the nodes of the tree under the root
TreeNodes == IF nodes = <<>> THEN {} ELSE Descendants(children, 1)

Contains(a, b) == a.start <= b.start /\ b.end <= a.end
Disjoint(a, b) == a.end <= b.start \/ b.end <= a.start
SameInterval(a, b) == a.start = b.start /\ a.end = b.end

\* ---------------------------------------------------------------- insertion model
\* the root of parse_by_parentheses, and calls of insert_child on it
RootNode == RangeNode(0, Inf, RootName, <<>>, FALSE)

InitInsert ==
    /\ nodes = <<RootNode>>
    /\ children = <<<<>>>>
    /\ err = NoError
    /\ pc = "api"
    /\ raw_text = <<>>
    /\ expr = <<>>
    /\ i = 0
    /\ stack = <<>>
    /\ for_iri = FALSE
    /\ closing_warnings = 0
    /\ vocab = <<>>
    /\ keep_iri = FALSE
    /\ add_quantifier_word = FALSE
    /\ result = <<>>
    /\ call = <<"insert_child">>
    /\ threads = <<>>
    /\ synonym_groups = <<>> /\ neg_num = 0 /\ neg_sample_pool = <<>>

\* root.insert_child(RangeNode(s, e))
InsertChildCall(s, e) ==
    /\ pc = "api"
    /\ err = NoError
    /\ Len(nodes) < MaxNodes
    /\ RangeNodeValid(s, e)
    /\ LET t == InsertNew(Tree, RangeNode(s, e, <<>>, <<>>, FALSE))
       IN  /\ nodes' = t.nodes
           /\ children' = t.children
           /\ err' = t.err
    /\ UNCHANGED <<pc, scanVars, verbVars>>

NextInsert == \E s \in 0..MaxPos, e \in (1..MaxPos) \cup {Inf} : InsertChildCall(s, e)

SpecInsert == InitInsert /\ [][NextInsert]_vars

\* ---------------------------------------------------------------- Python string operations
Min(a, b) == IF a < b THEN a ELSE b
Max(a, b) == IF a > b THEN a ELSE b

\* s[a:b] of Python: negative indices count from the end, indices are clamped
SliceIndex(s, a) == IF a < 0 THEN Max(a + Len(s), 0) ELSE Min(a, Len(s))
Slice(s, a, b) ==
    LET lo == SliceIndex(s, a)
        hi == SliceIndex(s, b)
    IN  IF lo < hi THEN SubSeq(s, lo + 1, hi) ELSE <<>>

StartsWith(s, prefix) ==
    Len(s) >= Len(prefix) /\ SubSeq(s, 1, Len(prefix)) = prefix

\* s.replace(k, v): every non-overlapping occurrence of k, left to right
RECURSIVE Replace(_, _, _)
Replace(s, k, v) ==
    LET found == {a \in 1..(Len(s) - Len(k) + 1) : SubSeq(s, a, a + Len(k) - 1) = k}
    IN  IF found = {} THEN s
        ELSE LET first == CHOOSE a \in found : \A b \in found : a <= b
             IN  Bind(SubSeq(s, first + Len(k), Len(s)),
                      LAMBDA rest : SubSeq(s, 1, first - 1) \o v \o Replace(rest, k, v))

\* s.lstrip(c) and s.rstrip(c) for a one-character c
RECURSIVE LStrip(_, _)
LStrip(s, c) == IF s # <<>> /\ Head(s) = c THEN LStrip(Tail(s), c) ELSE s
RECURSIVE RStrip(_, _)
RStrip(s, c) == IF s # <<>> /\ s[Len(s)] = c THEN RStrip(SubSeq(s, 1, Len(s) - 1), c) ELSE s

\* s.split("/")[-1]
LastSegment(s) ==
    LET slashes == {k \in 1..Len(s) : s[k] = "/"}
        last == IF slashes = {} THEN 0 ELSE CHOOSE k \in slashes : \A j \in slashes : j <= k
    IN  SubSeq(s, last + 1, Len(s))

\* ---------------------------------------------------------------- OntologySyntaxParser
\* ABBREVIATION_DICT, in insertion order: <<keyword, tag>>
ABBREVIATION_DICT == <<
    <<<<"O", "b", "j", "e", "c", "t", "C", "o", "m", "p", "l", "e", "m", "e", "n", "t", "O", "f">>,
      <<"[", "N", "E", "G", "]">>>>,
    <<<<"O", "b", "j", "e", "c", "t", "S", "o", "m", "e", "V", "a", "l", "u", "e", "s", "F", "r", "o", "m">>,
      <<"[", "E", "X", ".", "]">>>>,
    <<<<"O", "b", "j", "e", "c", "t", "A", "l", "l", "V", "a", "l", "u", "e", "s", "F", "r", "o", "m">>,
      <<"[", "A", "L", "L", "]">>>>,
    <<<<"O", "b", "j", "e", "c", "t", "U", "n", "i", "o", "n", "O", "f">>,
      <<"[", "O", "R", ".", "]">>>>,
    <<<<"O", "b", "j", "e", "c", "t", "I", "n", "t", "e", "r", "s", "e", "c", "t", "i", "o", "n", "O", "f">>,
      <<"[", "A", "N", "D", "]">>>>,
    <<<<"O", "b", "j", "e", "c", "t", "P", "r", "o", "p", "e", "r", "t", "y", "C", "h", "a", "i", "n">>,
      <<"[", "O", "P", "C", "]">>>>,
    <<<<"E", "q", "u", "i", "v", "a", "l", "e", "n", "t", "C", "l", "a", "s", "s", "e", "s">>,
      <<"[", "E", "Q", "V", "]">>>>,
    <<<<"S", "u", "b", "C", "l", "a", "s", "s", "O", "f">>,
      <<"[", "S", "U", "B", "]">>>>,
    <<<<"S", "u", "p", "e", "r", "C", "l", "a", "s", "s", "O", "f">>,
      <<"[", "S", "U", "P", "]">>>>,
    <<<<"C", "l", "a", "s", "s", "A", "s", "s", "e", "r", "t", "i", "o", "n">>,
      <<"[", "C", "L", "A", "]">>>>,
    <<<<"S", "u", "b", "O", "b", "j", "e", "c", "t", "P", "r", "o", "p", "e", "r", "t", "y", "O", "f">>,
      <<"[", "S", "U", "B", "]">>>>,
    <<<<"S", "u", "p", "e", "r", "O", "b", "j", "e", "c", "t", "P", "r", "o", "p", "e", "r", "t", "y", "O", "f">>,
      <<"[", "S", "U", "P", "]">>>>,
    <<<<"O", "b", "j", "e", "c", "t", "P", "r", "o", "p", "e", "r", "t", "y", "A", "s", "s", "e", "r", "t", "i", "o", "n">>,
      <<"[", "O", "P", "A", "]">>>>,
    <<<<"O", "b", "j", "e", "c", "t", "P", "r", "o", "p", "e", "r", "t", "y", "D", "o", "m", "a", "i", "n">>,
      <<"[", "O", "P", "D", "]">>>>,
    <<<<"D", "a", "t", "a", "P", "r", "o", "p", "e", "r", "t", "y", "D", "o", "m", "a", "i", "n">>,
      <<"[", "D", "P", "D", "]">>>>,
    <<<<"A", "n", "n", "o", "t", "a", "t", "i", "o", "n", "P", "r", "o", "p", "e", "r", "t", "y", "D", "o", "m", "a", "i", "n">>,
      <<"[", "A", "P", "D", "]">>>>,
    <<<<"O", "b", "j", "e", "c", "t", "P", "r", "o", "p", "e", "r", "t", "y", "R", "a", "n", "g", "e">>,
      <<"[", "O", "P", "R", "]">>>>,
    <<<<"D", "a", "t", "a", "P", "r", "o", "p", "e", "r", "t", "y", "R", "a", "n", "g", "e">>,
      <<"[", "D", "P", "R", "]">>>>,
    <<<<"A", "n", "n", "o", "t", "a", "t", "i", "o", "n", "P", "r", "o", "p", "e", "r", "t", "y", "R", "a", "n", "g", "e">>,
      <<"[", "A", "P", "R", "]">>>>
    >>

\* only the first keyword of the dictionary is replaced (mutant)
AbbreviateFirstOnly(s, k) ==
    Replace(s, ABBREVIATION_DICT[1][1], ABBREVIATION_DICT[1][2])

RECURSIVE AbbreviateFrom(_, _)
AbbreviateFrom(s, k) ==
    IF k > Len(ABBREVIATION_DICT) THEN s
    ELSE Bind(Replace(s, ABBREVIATION_DICT[k][1], ABBREVIATION_DICT[k][2]),
              LAMBDA replaced : AbbreviateFrom(replaced, k + 1))

\* abbreviate_owl_expression
AbbreviateOwlExpression(owl_expression) == AbbreviateFrom(owl_expression, 1)

LeftPar(iri) == IF iri THEN "<" ELSE "("
RightPar(iri) == IF iri THEN ">" ELSE ")"

\* parse goes on with the root of a call that another thread has started (mutant)
StartParseOnSharedRoot(owl_expression) ==
    LET started == {t \in DOMAIN threads : threads[t].nodes # <<>>}
        shared == threads[CHOOSE t \in started : TRUE]
    IN  Bind(AbbreviateOwlExpression(owl_expression),
             LAMBDA abbreviated :
                 [nodes |-> IF started = {} THEN <<RangeNode(0, Inf, RootName, abbreviated, FALSE)>>
                            ELSE shared.nodes,
                  children |-> IF started = {} THEN <<<<>>>> ELSE shared.children,
                  err |-> NoError,
                  pc |-> "scan",
                  expr |-> abbreviated,
                  i |-> 0,
                  stack |-> <<>>,
                  for_iri |-> FALSE,
                  closing_warnings |-> 0])

\* parse up to the first loop iteration: abbreviation, the fresh root, the empty stack
StartParse(owl_expression) ==
    Bind(AbbreviateOwlExpression(owl_expression),
         LAMBDA abbreviated :
             [nodes |-> <<RangeNode(0, Inf, RootName, abbreviated, FALSE)>>,
              children |-> <<<<>>>>,
              err |-> NoError,
              pc |-> "scan",
              expr |-> abbreviated,
              i |-> 0,
              stack |-> <<>>,
              for_iri |-> FALSE,
              closing_warnings |-> 0])

\* the text of an operator node leaves out its tag (mutant)
BracketNodeTextWithoutTag(owl_expression, start, end, iri) ==
    IF ~iri
    THEN LET real_start == start - 5
             axiom_type == Slice(owl_expression, real_start + 1, start - 1)
         IN  RangeNode(real_start, end + 1, axiom_type,
                       Slice(owl_expression, start, end + 1), FALSE)
    ELSE LET abbr_iri == RStrip(LastSegment(Slice(owl_expression, start, end + 1)), ">")
         IN  RangeNode(start, end + 1, abbr_iri, Slice(owl_expression, start, end + 1), TRUE)

\* the operator node starts at its "(" instead of at the "[" of its tag (mutant)
BracketNodeFromParenthesis(owl_expression, start, end, iri) ==
    IF ~iri
    THEN LET real_start == start
             axiom_type == Slice(owl_expression, real_start - 4, start - 1)
         IN  RangeNode(real_start, end + 1, axiom_type,
                       Slice(owl_expression, real_start, end + 1), FALSE)
    ELSE LET abbr_iri == RStrip(LastSegment(Slice(owl_expression, start, end + 1)), ">")
         IN  RangeNode(start, end + 1, abbr_iri, Slice(owl_expression, start, end + 1), TRUE)

\* the node parse_by_parentheses builds for the bracket pair (start, end)
BracketNode(owl_expression, start, end, iri) ==
    IF ~iri
    THEN LET real_start == start - 5
             axiom_type == Slice(owl_expression, real_start + 1, start - 1)
         IN  RangeNode(real_start, end + 1, axiom_type,
                       Slice(owl_expression, real_start, end + 1), FALSE)
    ELSE LET abbr_iri == RStrip(LastSegment(Slice(owl_expression, start, end + 1)), ">")
         IN  RangeNode(start, end + 1, abbr_iri, Slice(owl_expression, start, end + 1), TRUE)

\* a closing bracket met on an empty stack ends the parse (mutant)
ScanCharClosingAborts(st) ==
    LET c == st.expr[st.i + 1]
    IN  IF c = LeftPar(st.for_iri)
        THEN [st EXCEPT !.stack = Append(@, st.i), !.i = @ + 1]
        ELSE IF c = RightPar(st.for_iri)
        THEN IF st.stack = <<>>
             THEN [st EXCEPT !.err = IndexError, !.pc = "raised"]
             ELSE LET start == st.stack[Len(st.stack)]
                      node == BracketNode(st.expr, start, st.i, st.for_iri)
                  IN  Bind(InsertNew([nodes |-> st.nodes, children |-> st.children, err |-> st.err], node),
                           LAMBDA t :
                               [st EXCEPT !.stack = SubSeq(@, 1, Len(@) - 1),
                                          !.nodes = t.nodes,
                                          !.children = t.children,
                                          !.err = t.err,
                                          !.pc = IF t.err # NoError THEN "raised" ELSE @,
                                          !.i = IF t.err # NoError THEN @ ELSE @ + 1])
        ELSE [st EXCEPT !.i = @ + 1]

\* one iteration of the for loop of parse_by_parentheses, on character st.expr[st.i]
ScanChar(st) ==
    LET c == st.expr[st.i + 1]
    IN  IF c = LeftPar(st.for_iri)
        THEN [st EXCEPT !.stack = Append(@, st.i), !.i = @ + 1]
        ELSE IF c = RightPar(st.for_iri)
        THEN IF st.stack = <<>>
             THEN \* stack.pop() raises IndexError: the message is printed, the scan goes on
                  [st EXCEPT !.closing_warnings = @ + 1, !.i = @ + 1]
             ELSE LET start == st.stack[Len(st.stack)]
                      node == BracketNode(st.expr, start, st.i, st.for_iri)
                  IN  Bind(InsertNew([nodes |-> st.nodes, children |-> st.children, err |-> st.err], node),
                           LAMBDA t :
                               [st EXCEPT !.stack = SubSeq(@, 1, Len(@) - 1),
                                          !.nodes = t.nodes,
                                          !.children = t.children,
                                          !.err = t.err,
                                          !.pc = IF t.err # NoError THEN "raised" ELSE @,
                                          !.i = IF t.err # NoError THEN @ ELSE @ + 1])
        ELSE [st EXCEPT !.i = @ + 1]

\* the stack is checked after the pass over ( ) only (mutant)
EndScanFirstPassOnly(st) ==
    IF st.stack # <<>> /\ ~st.for_iri
    THEN [st EXCEPT !.err = TooManyOpening, !.pc = "raised"]
    ELSE IF ~st.for_iri
    THEN [st EXCEPT !.for_iri = TRUE, !.i = 0, !.stack = <<>>]
    ELSE [st EXCEPT !.pc = "parsed"]

\* after the for loop: the stack check, then pass 2 resp. the return of parse
EndScan(st) ==
    IF st.stack # <<>>
    THEN [st EXCEPT !.err = TooManyOpening, !.pc = "raised"]
    ELSE IF ~st.for_iri
    THEN [st EXCEPT !.for_iri = TRUE, !.i = 0, !.stack = <<>>]
    ELSE [st EXCEPT !.pc = "parsed"]

\* the loop iterations on characters that are no bracket of the pass, taken
\* together: the loop is at the next bracket, or at the end of the text
SkipOthers(st) ==
    LET brackets == {k \in st.i..(Len(st.expr) - 1) :
                        st.expr[k + 1] \in {LeftPar(st.for_iri), RightPar(st.for_iri)}}
    IN  [st EXCEPT !.i = IF brackets = {} THEN Len(st.expr)
                         ELSE CHOOSE k \in brackets : \A j \in brackets : k <= j]

RECURSIVE RunParse(_)
RunParse(st) ==
    IF st.pc # "scan" THEN st
    ELSE Bind(SkipOthers(st),
              LAMBDA at :
                  IF at.i < Len(at.expr) THEN Bind(ScanChar(at), LAMBDA next : RunParse(next))
                  ELSE Bind(EndScan(at), LAMBDA next : RunParse(next)))

\* OntologySyntaxParser.parse as a function of the text
Parse(owl_expression) == RunParse(StartParse(owl_expression))

ParserState ==
    [nodes |-> nodes, children |-> children, err |-> err, pc |-> pc, expr |-> expr,
     i |-> i, stack |-> stack, for_iri |-> for_iri, closing_warnings |-> closing_warnings]

SetParserState(st) ==
    /\ nodes' = st.nodes
    /\ children' = st.children
    /\ err' = st.err
    /\ pc' = st.pc
    /\ expr' = st.expr
    /\ i' = st.i
    /\ stack' = st.stack
    /\ for_iri' = st.for_iri
    /\ closing_warnings' = st.closing_warnings

\* ---------------------------------------------------------------- OntologyVerbaliser
\* (apply_auto_correction is off in every behaviour: the POS tagger is an external library)
NEG == <<"N", "E", "G">>
EX == <<"E", "X", ".">>
ALL == <<"A", "L", "L">>
AND == <<"A", "N", "D">>
OR2 == <<"O", "R">>
OR3 == <<"O", "R", ".">>
OPC == <<"O", "P", "C">>
IRI == <<"I", "R", "I">>
SomethingThat == <<"s", "o", "m", "e", "t", "h", "i", "n", "g", " ", "t", "h", "a", "t", " ">>

\* sep.join(parts)
RECURSIVE Join(_, _)
Join(sep, parts) ==
    IF parts = <<>> THEN <<>>
    ELSE IF Len(parts) = 1 THEN parts[1]
    ELSE parts[1] \o sep \o Join(sep, Tail(parts))

\* a CfgNode result; sub-results that a kind does not have are empty, the
\* "property" and "class" entries hold zero or one result; "logged" lists the
\* identifiers for which logger.warning was called while the result was built
CfgNode(verbal, type) ==
    [error |-> NoError, verbal |-> verbal, type |-> type, iri |-> <<>>,
     property |-> <<>>, class |-> <<>>, classes |-> <<>>, properties |-> <<>>, logged |-> <<>>]

\* the call raised msg instead of returning a CfgNode
Failure(msg) == [CfgNode(<<>>, <<>>) EXCEPT !.error = msg]

Verbals(results) == [k \in 1..Len(results) |-> results[k].verbal]

\* an identifier without a name is verbalised to the identifier without its < > (mutant)
VerbaliseIriBare(iri_node, is_property) ==
    LET iri == RStrip(LStrip(iri_node.text, "<"), ">")
        verbal == IF keep_iri THEN iri_node.text
                  ELSE IF iri \in DOMAIN vocab THEN vocab[iri]
                  ELSE iri
    IN  [CfgNode(verbal, IRI) EXCEPT !.iri = iri,
                                     !.logged = IF ~keep_iri /\ iri \notin DOMAIN vocab THEN <<iri>> ELSE <<>>]

\* _verbalise_iri (the result does not depend on is_property while auto-correction is off)
VerbaliseIri(iri_node, is_property) ==
    LET iri == RStrip(LStrip(iri_node.text, "<"), ">")
        verbal == IF keep_iri THEN iri_node.text
                  ELSE IF iri \in DOMAIN vocab THEN vocab[iri]
                  ELSE iri_node.text    \* KeyError: warning, the node's text is used
    IN  [CfgNode(verbal, IRI) EXCEPT !.iri = iri,
                                     !.logged = IF ~keep_iri /\ iri \notin DOMAIN vocab THEN <<iri>> ELSE <<>>]

\* _verbalise_property
VerbaliseProperty(t, n) ==
    IF t.nodes[n].is_iri THEN VerbaliseIri(t.nodes[n], TRUE)
    ELSE LET properties == [k \in 1..Len(t.children[n]) |->
                               VerbaliseIri(t.nodes[t.children[n][k]], TRUE)]
         IN  [CfgNode(Join(<<" ">> \o SomethingThat, Verbals(properties)), Slice(t.nodes[n].name, 0, 3))
                 EXCEPT !.properties = properties,
                        !.logged = Join(<<>>, [k \in 1..Len(properties) |-> properties[k].logged])]

\* the key is not looked at: every child joins the first group (mutant)
AppendToFirstGroup(groups, key, child) ==
    IF groups # <<>>
    THEN [groups EXCEPT ![1].members = Append(@, child)]
    ELSE Append(groups, [key |-> key, members |-> <<child>>])

\* a child joins the last group if that has its key and opens a new group otherwise (mutant)
AppendToLastGroup(groups, key, child) ==
    IF groups # <<>> /\ groups[Len(groups)].key = key
    THEN [groups EXCEPT ![Len(groups)].members = Append(@, child)]
    ELSE Append(groups, [key |-> key, members |-> <<child>>])

\* defaultdict(list)[key].append(child): groups keep the order of their first member
AppendToGroup(groups, key, child) ==
    IF \E g \in 1..Len(groups) : groups[g].key = key
    THEN LET g == CHOOSE g \in 1..Len(groups) : groups[g].key = key
         IN  [groups EXCEPT ![g].members = Append(@, child)]
    ELSE Append(groups, [key |-> key, members |-> <<child>>])

GroupValues(groups) == [g \in 1..Len(groups) |-> groups[g].members]

\* the merge of the restrictions v of one group (lines 347-366)
MergeGroup(v, junction_word, type) ==
    IF Len(v) > 1
    THEN LET more == [k \in 1..(Len(v) - 1) |-> <<" ">> \o junction_word \o <<" ">> \o v[k + 1].class[1].verbal]
             added == Join(<<>>, more)
             fillers == [k \in 1..Len(v) |-> v[k].class[1]]
         IN  [v[1] EXCEPT !.verbal = @ \o added,
                          !.class = <<[CfgNode(v[1].class[1].verbal \o added, type)
                                          EXCEPT !.classes = fillers]>>]
    ELSE v[1]

RECURSIVE VerbaliseClassExpression(_, _), VerbaliseRestriction(_, _, _), VerbaliseJunction(_, _),
          VerbaliseText(_), CollectChildren(_, _, _, _)

\* the text of the child of a negation is returned as it is (mutant)
VerbaliseClassExpressionNotLost(t, n) ==
    LET node == t.nodes[n]
    IN  IF node.is_iri THEN VerbaliseIri(node, FALSE)
        ELSE IF StartsWith(node.name, NEG)
        THEN IF t.children[n] = <<>> THEN Failure(IndexError)
             ELSE Bind(VerbaliseClassExpression(t, t.children[n][1]),
                       LAMBDA cl :
                           IF cl.error # NoError THEN cl
                           ELSE [CfgNode(cl.verbal, NEG)
                                    EXCEPT !.class = <<cl>>, !.logged = cl.logged])
        ELSE IF StartsWith(node.name, EX) \/ StartsWith(node.name, ALL)
        THEN VerbaliseRestriction(t, n, TRUE)
        ELSE IF StartsWith(node.name, AND) \/ StartsWith(node.name, OR2)
        THEN VerbaliseJunction(t, n)
        ELSE IF StartsWith(node.name, OPC)
        THEN VerbaliseProperty(t, n)
        ELSE Failure(NotSupported)

\* a node of another kind is verbalised like a property chain (mutant)
VerbaliseClassExpressionAnyKind(t, n) ==
    LET node == t.nodes[n]
    IN  IF node.is_iri THEN VerbaliseIri(node, FALSE)
        ELSE IF StartsWith(node.name, NEG)
        THEN IF t.children[n] = <<>> THEN Failure(IndexError)
             ELSE Bind(VerbaliseClassExpression(t, t.children[n][1]),
                       LAMBDA cl :
                           IF cl.error # NoError THEN cl
                           ELSE [CfgNode(<<"n", "o", "t", " ">> \o cl.verbal, NEG)
                                    EXCEPT !.class = <<cl>>, !.logged = cl.logged])
        ELSE IF StartsWith(node.name, EX) \/ StartsWith(node.name, ALL)
        THEN VerbaliseRestriction(t, n, TRUE)
        ELSE IF StartsWith(node.name, AND) \/ StartsWith(node.name, OR2)
        THEN VerbaliseJunction(t, n)
        ELSE IF StartsWith(node.name, OPC)
        THEN VerbaliseProperty(t, n)
        ELSE VerbaliseProperty(t, n)

\* verbalise_class_expression on a RangeNode n of tree t
VerbaliseClassExpression(t, n) ==
    LET node == t.nodes[n]
    IN  IF node.is_iri THEN VerbaliseIri(node, FALSE)
        ELSE IF StartsWith(node.name, NEG)
        THEN IF t.children[n] = <<>> THEN Failure(IndexError)
             ELSE Bind(VerbaliseClassExpression(t, t.children[n][1]),
                       LAMBDA cl :
                           IF cl.error # NoError THEN cl
                           ELSE [CfgNode(<<"n", "o", "t", " ">> \o cl.verbal, NEG)
                                    EXCEPT !.class = <<cl>>, !.logged = cl.logged])
        ELSE IF StartsWith(node.name, EX) \/ StartsWith(node.name, ALL)
        THEN VerbaliseRestriction(t, n, TRUE)
        ELSE IF StartsWith(node.name, AND) \/ StartsWith(node.name, OR2)
        THEN VerbaliseJunction(t, n)
        ELSE IF StartsWith(node.name, OPC)
        THEN VerbaliseProperty(t, n)
        ELSE Failure(NotSupported)

\* verbalise_class_expression on a string: parse it and skip the root node
VerbaliseText(class_expression) ==
    Bind(Parse(class_expression),
         LAMBDA parsed :
             IF parsed.pc = "raised" THEN Failure(parsed.err)
             ELSE IF parsed.children[1] = <<>> THEN Failure(IndexError)
             ELSE VerbaliseClassExpression(parsed, parsed.children[1][1]))

\* the quantifier word is "some" for both kinds of restriction (mutant)
VerbaliseRestrictionAlwaysSome(t, n, add_something) ==
    LET node == t.nodes[n]
    IN  IF ~(StartsWith(node.name, EX) \/ StartsWith(node.name, ALL)) \/ Len(t.children[n]) # 2
        THEN Failure(NotARestriction)
        ELSE LET quantifier_word == <<"s", "o", "m", "e">>
                 object_property == VerbaliseProperty(t, t.children[n][1])
             IN  Bind(VerbaliseText(t.nodes[t.children[n][2]].text),
                      LAMBDA class_expression :
                          IF class_expression.error # NoError THEN class_expression
                          ELSE LET joined == IF add_quantifier_word
                                             THEN object_property.verbal \o <<" ">> \o quantifier_word
                                                     \o <<" ">> \o class_expression.verbal
                                             ELSE object_property.verbal \o <<" ">> \o class_expression.verbal
                                   verbal == LStrip(joined, " ")
                               IN  [CfgNode(IF add_something THEN SomethingThat \o verbal ELSE verbal,
                                            Slice(node.name, 0, 3))
                                       EXCEPT !.property = <<object_property>>,
                                              !.class = <<class_expression>>,
                                              !.logged = object_property.logged \o class_expression.logged])

\* a restriction with more than two children is accepted (mutant)
VerbaliseRestrictionAtLeastTwo(t, n, add_something) ==
    LET node == t.nodes[n]
    IN  IF ~(StartsWith(node.name, EX) \/ StartsWith(node.name, ALL)) \/ Len(t.children[n]) < 2
        THEN Failure(NotARestriction)
        ELSE LET quantifier_word == IF StartsWith(node.name, EX) THEN <<"s", "o", "m", "e">>
                                    ELSE <<"o", "n", "l", "y">>
                 object_property == VerbaliseProperty(t, t.children[n][1])
             IN  Bind(VerbaliseText(t.nodes[t.children[n][2]].text),
                      LAMBDA class_expression :
                          IF class_expression.error # NoError THEN class_expression
                          ELSE LET joined == IF add_quantifier_word
                                             THEN object_property.verbal \o <<" ">> \o quantifier_word
                                                     \o <<" ">> \o class_expression.verbal
                                             ELSE object_property.verbal \o <<" ">> \o class_expression.verbal
                                   verbal == LStrip(joined, " ")
                               IN  [CfgNode(IF add_something THEN SomethingThat \o verbal ELSE verbal,
                                            Slice(node.name, 0, 3))
                                       EXCEPT !.property = <<object_property>>,
                                              !.class = <<class_expression>>,
                                              !.logged = object_property.logged \o class_expression.logged])

\* _verbalise_restriction
VerbaliseRestriction(t, n, add_something) ==
    LET node == t.nodes[n]
    IN  IF ~(StartsWith(node.name, EX) \/ StartsWith(node.name, ALL)) \/ Len(t.children[n]) # 2
        THEN Failure(NotARestriction)
        ELSE LET quantifier_word == IF StartsWith(node.name, EX) THEN <<"s", "o", "m", "e">>
                                    ELSE <<"o", "n", "l", "y">>
                 object_property == VerbaliseProperty(t, t.children[n][1])
             IN  Bind(VerbaliseText(t.nodes[t.children[n][2]].text),
                      LAMBDA class_expression :
                          IF class_expression.error # NoError THEN class_expression
                          ELSE LET joined == IF add_quantifier_word
                                             THEN object_property.verbal \o <<" ">> \o quantifier_word
                                                     \o <<" ">> \o class_expression.verbal
                                             ELSE object_property.verbal \o <<" ">> \o class_expression.verbal
                                   verbal == LStrip(joined, " ")
                               IN  [CfgNode(IF add_something THEN SomethingThat \o verbal ELSE verbal,
                                            Slice(node.name, 0, 3))
                                       EXCEPT !.property = <<object_property>>,
                                              !.class = <<class_expression>>,
                                              !.logged = object_property.logged \o class_expression.logged])

\* the first loop of _verbalise_junction (lines 334-342) over kids from index k
CollectChildren(t, kids, k, acc) ==
    IF k > Len(kids) THEN acc
    ELSE LET name == t.nodes[kids[k]].name
         IN  IF StartsWith(name, EX) \/ StartsWith(name, ALL)
             THEN Bind(VerbaliseRestriction(t, kids[k], FALSE),
                       LAMBDA child :
                           IF child.error # NoError THEN [acc EXCEPT !.error = child.error]
                           ELSE IF StartsWith(name, EX)
                           THEN CollectChildren(t, kids, k + 1,
                                   [acc EXCEPT !.existential = AppendToGroup(@, child.property[1].verbal, child),
                                               !.logged = @ \o child.logged])
                           ELSE CollectChildren(t, kids, k + 1,
                                   [acc EXCEPT !.universal = AppendToGroup(@, child.property[1].verbal, child),
                                               !.logged = @ \o child.logged]))
             ELSE Bind(VerbaliseClassExpression(t, kids[k]),
                       LAMBDA child :
                           IF child.error # NoError THEN [acc EXCEPT !.error = child.error]
                           ELSE CollectChildren(t, kids, k + 1,
                                   [acc EXCEPT !.other = Append(@, child), !.logged = @ \o child.logged]))

\* the groups in the order of line 345 (mutant: universal groups first)
UniversalFirst(existential, universal) == GroupValues(universal) \o GroupValues(existential)

\* line 345: the existential groups, then the universal groups
GroupOrder(existential, universal) == GroupValues(existential) \o GroupValues(universal)

\* the opening of a junction of restrictions only, stripped as line 379 intends (mutant)
StrippedOpening == SomethingThat

\* line 378: the opening of a junction of restrictions only
RestrictionsOnlyOpening == <<" ">> \o SomethingThat

\* the link between the other children and the restriction groups (mutant: always " that ")
AlwaysThat(junction_word) == <<" ", "t", "h", "a", "t", " ">>

\* lines 383-390: the link between the other children and the restriction groups
GroupLink(junction_word) ==
    IF junction_word = <<"a", "n", "d">> THEN <<" ", "t", "h", "a", "t", " ">>
    ELSE <<" ", "o", "r", " ">> \o SomethingThat

\* _verbalise_junction
VerbaliseJunction(t, n) ==
    LET node == t.nodes[n]
    IN  IF ~(StartsWith(node.name, AND) \/ StartsWith(node.name, OR3))
        THEN Failure(NotAJunction)
        ELSE LET junction_word == IF StartsWith(node.name, AND) THEN <<"a", "n", "d">> ELSE <<"o", "r">>
                 sep == <<" ">> \o junction_word \o <<" ">>
                 type == Slice(node.name, 0, 3)
                 Merged(groups) == [g \in 1..Len(groups) |-> MergeGroup(groups[g], junction_word, type)]
                 Render(other_children, merged_children, logged) ==
                     LET verbal ==
                             IF other_children = <<>>
                             THEN RestrictionsOnlyOpening \o Join(sep, Verbals(merged_children))
                             ELSE Join(sep, Verbals(other_children))
                                  \o (IF merged_children # <<>>
                                      THEN GroupLink(junction_word) \o Join(sep, Verbals(merged_children))
                                      ELSE <<>>)
                     IN  [CfgNode(verbal, type) EXCEPT !.classes = other_children \o merged_children,
                                                       !.logged = logged]
             IN  Bind(CollectChildren(t, t.children[n], 1,
                          [error |-> NoError, existential |-> <<>>, universal |-> <<>>, other |-> <<>>,
                           logged |-> <<>>]),
                      LAMBDA acc :
                          IF acc.error # NoError THEN Failure(acc.error)
                          ELSE Bind(Merged(GroupOrder(acc.existential, acc.universal)),
                                    LAMBDA merged_children : Render(acc.other, merged_children, acc.logged)))

\* ---------------------------------------------------------------- inputs of the parser and verbaliser model
\* Scenario 1: [NEG](<http://x/A>)
Scenario1 ==
    <<"[", "N", "E", "G", "]", "(", "<", "h", "t", "t", "p", ":", "/", "/", "x", "/", "A", ">", ")">>
\* Scenario 2: [AND](<http://x/B> [EX.](<http://x/r> <http://x/C>))
Scenario2 ==
    <<"[", "A", "N", "D", "]", "(", "<", "h", "t", "t", "p", ":", "/", "/", "x", "/", "B", ">", " ", "[", "E", "X", ".", "]", "(", "<", "h", "t", "t", "p", ":", "/", "/", "x", "/", "r", ">", " ", "<", "h", "t", "t", "p", ":", "/", "/", "x", "/", "C", ">", ")", ")">>
\* Scenario 3 as the spec writes it: [AND]([EX.](<r><C1>) [EX.](<r><C2>))
Scenario3 ==
    <<"[", "A", "N", "D", "]", "(", "[", "E", "X", ".", "]", "(", "<", "r", ">", "<", "C", "1", ">", ")", " ", "[", "E", "X", ".", "]", "(", "<", "r", ">", "<", "C", "2", ">", ")", ")">>
\* Scenario 3 with the operands separated by a space: [AND]([EX.](<r> <C1>) [EX.](<r> <C2>))
Scenario3Spaced ==
    <<"[", "A", "N", "D", "]", "(", "[", "E", "X", ".", "]", "(", "<", "r", ">", " ", "<", "C", "1", ">", ")", " ", "[", "E", "X", ".", "]", "(", "<", "r", ">", " ", "<", "C", "2", ">", ")", ")">>
\* unabbreviated operator keywords: ObjectUnionOf(<x/A> ObjectAllValuesFrom(<r> <C>))
RawKeywords ==
    <<"O", "b", "j", "e", "c", "t", "U", "n", "i", "o", "n", "O", "f", "(", "<", "x", "/", "A", ">", " ", "O", "b", "j", "e", "c", "t", "A", "l", "l", "V", "a", "l", "u", "e", "s", "F", "r", "o", "m", "(", "<", "r", ">", " ", "<", "C", ">", ")", ")">>
\* one unmatched (: [AND](<x/A> [EX.](<r> <C>)
UnmatchedOpen ==
    <<"[", "A", "N", "D", "]", "(", "<", "x", "/", "A", ">", " ", "[", "E", "X", ".", "]", "(", "<", "r", ">", " ", "<", "C", ">", ")">>
\* one unmatched (, the outer one: [NEG]([NEG](<x/A>)
UnmatchedOpenInner ==
    <<"[", "N", "E", "G", "]", "(", "[", "N", "E", "G", "]", "(", "<", "x", "/", "A", ">", ")">>
\* one unmatched ): [NEG](<x/A>))
UnmatchedClose ==
    <<"[", "N", "E", "G", "]", "(", "<", "x", "/", "A", ">", ")", ")">>
\* one unmatched <: [NEG](<x/A)
UnmatchedOpenIri ==
    <<"[", "N", "E", "G", "]", "(", "<", "x", "/", "A", ")">>
\* one unmatched >: [NEG](x/A>)
UnmatchedCloseIri ==
    <<"[", "N", "E", "G", "]", "(", "x", "/", "A", ">", ")">>
\* a junction as filler: [EX.](<r> [AND]([EX.](<s> <C>) [EX.](<s> <D>)))
NestedJunction ==
    <<"[", "E", "X", ".", "]", "(", "<", "r", ">", " ", "[", "A", "N", "D", "]", "(", "[", "E", "X", ".", "]", "(", "<", "s", ">", " ", "<", "C", ">", ")", " ", "[", "E", "X", ".", "]", "(", "<", "s", ">", " ", "<", "D", ">", ")", ")", ")">>
\* groups of several members: [AND]([ALL](<r> <C>) [EX.](<s> <C>) [EX.](<r> <D>) <x/A> [ALL](<r> <D>) [EX.](<r> <C1>))
LongJunction ==
    <<"[", "A", "N", "D", "]", "(", "[", "A", "L", "L", "]", "(", "<", "r", ">", " ", "<", "C", ">", ")", " ", "[", "E", "X", ".", "]", "(", "<", "s", ">", " ", "<", "C", ">", ")", " ", "[", "E", "X", ".", "]", "(", "<", "r", ">", " ", "<", "D", ">", ")", " ", "<", "x", "/", "A", ">", " ", "[", "A", "L", "L", "]", "(", "<", "r", ">", " ", "<", "D", ">", ")", " ", "[", "E", "X", ".", "]", "(", "<", "r", ">", " ", "<", "C", "1", ">", ")", ")">>

\* the docstring example of OntologySyntaxParser: EquivalentClasses(<http://purl.obolibrary.org/obo/FOODON_00001707> ObjectIntersectionOf(<http://purl.obolibrary.org/obo/FOODON_00002044> ObjectSomeValuesFrom(<http://purl.obolibrary.org/obo/RO_0001000> <http://purl.obolibrary.org/obo/FOODON_03412116>)) )
DocExample ==
    <<"E", "q", "u", "i", "v", "a", "l", "e", "n", "t", "C", "l", "a", "s", "s", "e", "s", "(", "<", "h", "t", "t", "p", ":", "/", "/", "p", "u", "r", "l", ".", "o", "b", "o", "l", "i", "b", "r", "a", "r", "y", ".", "o", "r", "g", "/", "o", "b", "o", "/", "F", "O", "O", "D", "O", "N", "_", "0", "0", "0", "0", "1", "7", "0", "7", ">", " ", "O", "b", "j", "e", "c", "t", "I", "n", "t", "e", "r", "s", "e", "c", "t", "i", "o", "n", "O", "f", "(", "<", "h", "t", "t", "p", ":", "/", "/", "p", "u", "r", "l", ".", "o", "b", "o", "l", "i", "b", "r", "a", "r", "y", ".", "o", "r", "g", "/", "o", "b", "o", "/", "F", "O", "O", "D", "O", "N", "_", "0", "0", "0", "0", "2", "0", "4", "4", ">", " ", "O", "b", "j", "e", "c", "t", "S", "o", "m", "e", "V", "a", "l", "u", "e", "s", "F", "r", "o", "m", "(", "<", "h", "t", "t", "p", ":", "/", "/", "p", "u", "r", "l", ".", "o", "b", "o", "l", "i", "b", "r", "a", "r", "y", ".", "o", "r", "g", "/", "o", "b", "o", "/", "R", "O", "_", "0", "0", "0", "1", "0", "0", "0", ">", " ", "<", "h", "t", "t", "p", ":", "/", "/", "p", "u", "r", "l", ".", "o", "b", "o", "l", "i", "b", "r", "a", "r", "y", ".", "o", "r", "g", "/", "o", "b", "o", "/", "F", "O", "O", "D", "O", "N", "_", "0", "3", "4", "1", "2", "1", "1", "6", ">", ")", ")", " ", ")">>
\* a universal restriction on its own: [ALL](<http://x/r> [NEG](<x/A>))
RestrictionAll ==
    <<"[", "A", "L", "L", "]", "(", "<", "h", "t", "t", "p", ":", "/", "/", "x", "/", "r", ">", " ", "[", "N", "E", "G", "]", "(", "<", "x", "/", "A", ">", ")", ")">>
\* an existential restriction on its own, its filler without a name: [EX.](<s> <x/B>)
RestrictionUnknown ==
    <<"[", "E", "X", ".", "]", "(", "<", "s", ">", " ", "<", "x", "/", "B", ">", ")">>
\* a restriction on a property chain: [EX.]([OPC](<r> <s>) <C>)
RestrictionChain ==
    <<"[", "E", "X", ".", "]", "(", "[", "O", "P", "C", "]", "(", "<", "r", ">", " ", "<", "s", ">", ")", " ", "<", "C", ">", ")">>
\* the negation of a restriction: [NEG]([EX.](<r> <C>))
NegRestriction ==
    <<"[", "N", "E", "G", "]", "(", "[", "E", "X", ".", "]", "(", "<", "r", ">", " ", "<", "C", ">", ")", ")">>
\* the negation of a negation of an identifier without a name: [NEG]([NEG](<x/B>))
NegNeg ==
    <<"[", "N", "E", "G", "]", "(", "[", "N", "E", "G", "]", "(", "<", "x", "/", "B", ">", ")", ")">>
\* the negation of a junction: [NEG]([OR.](<x/A> <x/B>))
NegJunction ==
    <<"[", "N", "E", "G", "]", "(", "[", "O", "R", ".", "]", "(", "<", "x", "/", "A", ">", " ", "<", "x", "/", "B", ">", ")", ")">>
\* a restriction with one child: [EX.](<r>)
RestrictionOne ==
    <<"[", "E", "X", ".", "]", "(", "<", "r", ">", ")">>
\* a restriction without children: [ALL]()
RestrictionNone ==
    <<"[", "A", "L", "L", "]", "(", ")">>
\* a restriction with three children: [EX.](<r> <C> <D>)
RestrictionThree ==
    <<"[", "E", "X", ".", "]", "(", "<", "r", ">", " ", "<", "C", ">", " ", "<", "D", ">", ")">>
\* a restriction with one child in a junction: [AND](<x/A> [ALL](<r>))
JunctionRestrictionOne ==
    <<"[", "A", "N", "D", "]", "(", "<", "x", "/", "A", ">", " ", "[", "A", "L", "L", "]", "(", "<", "r", ">", ")", ")">>
\* a restriction with one child as filler: [EX.](<r> [EX.](<s>))
FillerRestrictionOne ==
    <<"[", "E", "X", ".", "]", "(", "<", "r", ">", " ", "[", "E", "X", ".", "]", "(", "<", "s", ">", ")", ")">>
\* an axiom kind at the top: [SUB](<x/A> <x/B>)
AxiomTop ==
    <<"[", "S", "U", "B", "]", "(", "<", "x", "/", "A", ">", " ", "<", "x", "/", "B", ">", ")">>
\* an axiom kind under a negation: [NEG]([SUB](<x/A> <x/B>))
AxiomInNeg ==
    <<"[", "N", "E", "G", "]", "(", "[", "S", "U", "B", "]", "(", "<", "x", "/", "A", ">", " ", "<", "x", "/", "B", ">", ")", ")">>
\* an axiom kind as child of a junction: [OR.](<x/A> [EQV](<x/A> <x/B>))
AxiomInJunction ==
    <<"[", "O", "R", ".", "]", "(", "<", "x", "/", "A", ">", " ", "[", "E", "Q", "V", "]", "(", "<", "x", "/", "A", ">", " ", "<", "x", "/", "B", ">", ")", ")">>
\* an axiom kind as filler: [EX.](<r> [SUB](<x/A> <x/B>))
AxiomInFiller ==
    <<"[", "E", "X", ".", "]", "(", "<", "r", ">", " ", "[", "S", "U", "B", "]", "(", "<", "x", "/", "A", ">", " ", "<", "x", "/", "B", ">", ")", ")">>
\* an axiom kind as filler of a restriction of a junction: [AND]([ALL](<r> [SUB](<x/A> <x/B>)))
AxiomInFillerInJunction ==
    <<"[", "A", "N", "D", "]", "(", "[", "A", "L", "L", "]", "(", "<", "r", ">", " ", "[", "S", "U", "B", "]", "(", "<", "x", "/", "A", ">", " ", "<", "x", "/", "B", ">", ")", ")", ")">>
\* an unmatched ) before everything else: )[NEG](<x/A>)
UnmatchedCloseFirst ==
    <<")", "[", "N", "E", "G", "]", "(", "<", "x", "/", "A", ">", ")">>
\* an unmatched ) after a second top-level node: [AND](<x/A>) <x/B>)
UnmatchedCloseLast ==
    <<"[", "A", "N", "D", "]", "(", "<", "x", "/", "A", ">", ")", " ", "<", "x", "/", "B", ">", ")">>
\* an unmatched > and an unmatched ): [NEG](<x/A>>))
UnmatchedCloseBoth ==
    <<"[", "N", "E", "G", "]", "(", "<", "x", "/", "A", ">", ">", ")", ")">>
\* a kind that begins with OR and is not OR.: [ORA](<x/A> <x/B>)
UnknownOrKind ==
    <<"[", "O", "R", "A", "]", "(", "<", "x", "/", "A", ">", " ", "<", "x", "/", "B", ">", ")">>

\* every operator keyword, applied to one identifier: Keyword(<x/A>)
KeywordTexts ==
    {ABBREVIATION_DICT[k][1] \o <<"(", "<", "x", "/", "A", ">", ")">> : k \in 1..Len(ABBREVIATION_DICT)}

\* the operands of the junction family: two identifiers and four restrictions
Operands == <<
    <<"<", "x", "/", "A", ">">>,    \* <x/A>
    <<"<", "x", "/", "B", ">">>,    \* <x/B>
    <<"[", "E", "X", ".", "]", "(", "<", "r", ">", " ", "<", "C", ">", ")">>,    \* [EX.](<r> <C>)
    <<"[", "E", "X", ".", "]", "(", "<", "r", ">", " ", "<", "D", ">", ")">>,    \* [EX.](<r> <D>)
    <<"[", "E", "X", ".", "]", "(", "<", "s", ">", " ", "<", "C", ">", ")">>,    \* [EX.](<s> <C>)
    <<"[", "A", "L", "L", "]", "(", "<", "r", ">", " ", "<", "D", ">", ")">>    \* [ALL](<r> <D>)
    >>

MaxOperands == 3    \* largest number of operands of a junction of the family

\* "[AND](" or "[OR.](" + the operands separated by one space + ")"
JunctionText(tag, operands) == <<"[">> \o tag \o <<"]", "(">> \o Join(<<" ">>, operands) \o <<")">>

JunctionFamily ==
    {JunctionText(tag, [k \in DOMAIN f |-> Operands[f[k]]]) :
        tag \in {AND, OR3}, f \in UNION {[1..m -> 1..Len(Operands)] : m \in 1..MaxOperands}}

Texts ==
    {Scenario1, Scenario2, Scenario3, Scenario3Spaced, RawKeywords, UnmatchedOpen, UnmatchedOpenInner, UnmatchedClose, UnmatchedOpenIri, UnmatchedCloseIri, NestedJunction, LongJunction}
    \cup {DocExample, RestrictionAll, RestrictionUnknown, RestrictionChain, NegRestriction, NegNeg, NegJunction, RestrictionOne, RestrictionNone, RestrictionThree}
    \cup {JunctionRestrictionOne, FillerRestrictionOne, AxiomTop, AxiomInNeg, AxiomInJunction, AxiomInFiller, AxiomInFillerInJunction, UnmatchedCloseFirst, UnmatchedCloseLast, UnmatchedCloseBoth, UnknownOrKind}
    \cup KeywordTexts
    \cup JunctionFamily

\* the name lookup: x/B and the identifiers of the docstring example have no name
Vocabulary ==
    LET entries == <<
            <<<<"h", "t", "t", "p", ":", "/", "/", "x", "/", "A">>, <<"A">>>>,
            <<<<"h", "t", "t", "p", ":", "/", "/", "x", "/", "B">>, <<"B">>>>,
            <<<<"h", "t", "t", "p", ":", "/", "/", "x", "/", "C">>, <<"C">>>>,
            <<<<"h", "t", "t", "p", ":", "/", "/", "x", "/", "r">>, <<"r">>>>,
            <<<<"r">>, <<"r">>>>,
            <<<<"s">>, <<"s">>>>,
            <<<<"C">>, <<"C">>>>,
            <<<<"D">>, <<"D">>>>,
            <<<<"C", "1">>, <<"C", "1">>>>,
            <<<<"C", "2">>, <<"C", "2">>>>,
            <<<<"x", "/", "A">>, <<"s", "e", "a", " ", "f", "o", "o", "d">>>>,
            <<<<"x", "/", "A", "L", "L", "E", "R", "G", "Y">>, <<"a", "l", "l", "e", "r", "g", "y">>>>,
            <<<<"x", "/", "S", "u", "b", "C", "l", "a", "s", "s", "O", "f">>, <<"s", "u", "b", " ", "c", "l", "a", "s", "s", " ", "o", "f">>>>
            >>
    IN  [iri \in {entries[k][1] : k \in 1..Len(entries)} |->
            (CHOOSE e \in {entries[k] : k \in 1..Len(entries)} : e[1] = iri)[2]]

\* ---------------------------------------------------------------- parser and verbaliser model
\* one call verbalise_class_expression(raw_text) of a verbaliser constructed
\* with the flags of Init; the parse is taken one loop iteration at a time
Init ==
    /\ raw_text \in Texts
    /\ add_quantifier_word \in BOOLEAN
    /\ keep_iri = FALSE
    /\ vocab = Vocabulary
    /\ pc = "call"
    /\ nodes = <<>>
    /\ children = <<>>
    /\ err = NoError
    /\ expr = <<>>
    /\ i = 0
    /\ stack = <<>>
    /\ for_iri = FALSE
    /\ closing_warnings = 0
    /\ result = <<>>
    /\ call = <<"verbalise_class_expression", raw_text>>
    /\ threads = <<>>
    /\ synonym_groups = <<>> /\ neg_num = 0 /\ neg_sample_pool = <<>>

\* parse: abbreviation and the set-up of the first pass
ParseStart ==
    /\ pc = "call"
    /\ SetParserState(StartParse(raw_text))
    /\ UNCHANGED <<raw_text, verbVars, call, threads, samplingVars>>

\* the loop meets an opening bracket of the pass
ScanOpen ==
    /\ pc = "scan" /\ i < Len(expr)
    /\ expr[i + 1] = LeftPar(for_iri)
    /\ SetParserState(ScanChar(ParserState))
    /\ UNCHANGED <<raw_text, verbVars, call, threads, samplingVars>>

\* the loop meets a closing bracket with a matching opening bracket on the stack
ScanClose ==
    /\ pc = "scan" /\ i < Len(expr)
    /\ expr[i + 1] = RightPar(for_iri) /\ stack # <<>>
    /\ SetParserState(ScanChar(ParserState))
    /\ UNCHANGED <<raw_text, verbVars, call, threads, samplingVars>>

\* the loop meets a closing bracket while the stack is empty
ScanCloseUnmatched ==
    /\ pc = "scan" /\ i < Len(expr)
    /\ expr[i + 1] = RightPar(for_iri) /\ stack = <<>>
    /\ SetParserState(ScanChar(ParserState))
    /\ UNCHANGED <<raw_text, verbVars, call, threads, samplingVars>>

\* the loop meets any other character
ScanOther ==
    /\ pc = "scan" /\ i < Len(expr)
    /\ expr[i + 1] \notin {LeftPar(for_iri), RightPar(for_iri)}
    /\ SetParserState(ScanChar(ParserState))
    /\ UNCHANGED <<raw_text, verbVars, call, threads, samplingVars>>

\* the end of a pass with opening brackets left on the stack
EndScanRaise ==
    /\ pc = "scan" /\ i = Len(expr) /\ stack # <<>>
    /\ SetParserState(EndScan(ParserState))
    /\ UNCHANGED <<raw_text, verbVars, call, threads, samplingVars>>

\* the end of the pass over ( ): parse goes on with the pass over < >
EndPass1 ==
    /\ pc = "scan" /\ i = Len(expr) /\ stack = <<>> /\ ~for_iri
    /\ SetParserState(EndScan(ParserState))
    /\ UNCHANGED <<raw_text, verbVars, call, threads, samplingVars>>

\* the end of the pass over < >: parse returns the root
EndPass2 ==
    /\ pc = "scan" /\ i = Len(expr) /\ stack = <<>> /\ for_iri
    /\ SetParserState(EndScan(ParserState))
    /\ UNCHANGED <<raw_text, verbVars, call, threads, samplingVars>>

\* verbalise_class_expression after parse has returned: .children[0] of the
\* root is verbalised; an exception ends the call without a result
Verbalise ==
    /\ pc = "parsed"
    /\ LET r == IF children[1] = <<>> THEN Failure(IndexError)
                ELSE VerbaliseClassExpression(Tree, children[1][1])
       IN  IF r.error # NoError
           THEN /\ err' = r.error
                /\ pc' = "raised"
                /\ result' = <<>>
           ELSE /\ err' = err
                /\ pc' = "verbalised"
                /\ result' = <<r>>
    /\ UNCHANGED <<nodes, children, scanVars, vocab, keep_iri, add_quantifier_word>>

Next ==
    \/ ParseStart
    \/ ScanOpen
    \/ ScanClose
    \/ ScanCloseUnmatched
    \/ ScanOther
    \/ EndScanRaise
    \/ EndPass1
    \/ EndPass2
    \/ Verbalise

Spec == Init /\ [][Next]_vars

\* ---------------------------------------------------------------- calls on texts with unusual identifiers and groups
\* a junction with an identifier whose last segment begins with ALL: [AND](<x/ALLERGY> <x/A>)
AllergyJunction ==
    <<"[", "A", "N", "D", "]", "(", "<", "x", "/", "A", "L", "L", "E", "R", "G", "Y", ">", " ", "<", "x", "/", "A", ">", ")">>
\* a junction with an identifier that has a name and no upper-case prefix of a kind: [AND](<x/A> <C>)
PlainJunction ==
    <<"[", "A", "N", "D", "]", "(", "<", "x", "/", "A", ">", " ", "<", "C", ">", ")">>
\* an identifier that contains an operator keyword: ObjectComplementOf(<x/SubClassOf>)
KeywordInIdentifier ==
    <<"O", "b", "j", "e", "c", "t", "C", "o", "m", "p", "l", "e", "m", "e", "n", "t", "O", "f", "(", "<", "x", "/", "S", "u", "b", "C", "l", "a", "s", "s", "O", "f", ">", ")">>
\* a group without a tag in front of its parenthesis: [AND]((<x/A>))
UntaggedGroup ==
    <<"[", "A", "N", "D", "]", "(", "(", "<", "x", "/", "A", ">", ")", ")">>

EdgeTexts ==
    {AllergyJunction, PlainJunction, KeywordInIdentifier, UntaggedGroup,
     RawKeywords, RestrictionAll, UnmatchedOpen, UnmatchedClose}

\* verbalise_class_expression is called on one of the texts above
InitEdge ==
    /\ raw_text \in EdgeTexts
    /\ add_quantifier_word \in BOOLEAN
    /\ keep_iri = FALSE
    /\ vocab = Vocabulary
    /\ pc = "call"
    /\ nodes = <<>>
    /\ children = <<>>
    /\ err = NoError
    /\ expr = <<>>
    /\ i = 0
    /\ stack = <<>>
    /\ for_iri = FALSE
    /\ closing_warnings = 0
    /\ result = <<>>
    /\ call = <<"verbalise_class_expression", raw_text>>
    /\ threads = <<>>
    /\ synonym_groups = <<>> /\ neg_num = 0 /\ neg_sample_pool = <<>>

SpecEdge == InitEdge /\ [][Next]_vars

\* ---------------------------------------------------------------- axiom verbalisers
SubClassOf == <<"S", "u", "b", "C", "l", "a", "s", "s", "O", "f">>
SuperClassOf == <<"S", "u", "p", "e", "r", "C", "l", "a", "s", "s", "O", "f">>
SubObjectPropertyOf == <<"S", "u", "b", "O", "b", "j", "e", "c", "t", "P", "r", "o", "p", "e", "r", "t", "y", "O", "f">>
SuperObjectPropertyOf == <<"S", "u", "p", "e", "r", "O", "b", "j", "e", "c", "t", "P", "r", "o", "p", "e", "r", "t", "y", "O", "f">>
SubPropertyChainOf == <<"S", "u", "b", "P", "r", "o", "p", "e", "r", "t", "y", "C", "h", "a", "i", "n", "O", "f">>
SuperPropertyChainOf == <<"S", "u", "p", "e", "r", "P", "r", "o", "p", "e", "r", "t", "y", "C", "h", "a", "i", "n", "O", "f">>
ObjectPropertyChain == <<"O", "b", "j", "e", "c", "t", "P", "r", "o", "p", "e", "r", "t", "y", "C", "h", "a", "i", "n">>

AssertionError == "AssertionError: Input axiom type is not in the required axiom types."
NotEnoughValues == "ValueError: not enough values to unpack (expected 2)"
TooManyValues == "ValueError: too many values to unpack (expected 2)"
UnboundLocalError == "UnboundLocalError: cannot access local variable"

\* the keyword an axiom text begins with: the text up to its first "("
Keyword(axiom) ==
    LET at == {k \in 1..Len(axiom) : axiom[k] = "("}
    IN  IF at = {} THEN axiom ELSE SubSeq(axiom, 1, (CHOOSE k \in at : \A j \in at : k <= j) - 1)

\* Ontology.get_axiom_type: the kind of the axiom, which is the keyword its
\* text begins with; a property subsumption axiom whose first operand is a
\* property chain has a kind of its own
AxiomType(axiom) ==
    LET keyword == Keyword(axiom)
        on_chain == StartsWith(SubSeq(axiom, Len(keyword) + 2, Len(axiom)), ObjectPropertyChain)
    IN  IF keyword = SubObjectPropertyOf /\ on_chain THEN SubPropertyChainOf
        ELSE IF keyword = SuperObjectPropertyOf /\ on_chain THEN SuperPropertyChainOf
        ELSE keyword

\* _axiom_input_check: the assert holds
AxiomInputCheck(axiom, required_axiom_types) == AxiomType(axiom) \in required_axiom_types

\* what an axiom verbaliser returns: the tuple of results, or the exception
Returned(values) == [error |-> NoError, values |-> values]
Raised(msg) == [error |-> msg, values |-> <<>>]

\* the operands are returned in the order of the text for both keywords (mutant)
SubAndSuperInTextOrder(axiom, operands, sub_keyword, super_keyword) ==
    IF StartsWith(axiom, sub_keyword) \/ StartsWith(axiom, super_keyword)
    THEN IF Len(operands) < 2 THEN Raised(NotEnoughValues)
         ELSE IF Len(operands) > 2 THEN Raised(TooManyValues)
         ELSE Returned(<<operands[1], operands[2]>>)
    ELSE Raised(UnboundLocalError)

\* lines 420-423 and 498-501: the operand nodes <<sub, super>> of a subsumption
\* axiom, chosen by the keyword the text of the axiom starts with
SubAndSuper(axiom, operands, sub_keyword, super_keyword) ==
    IF StartsWith(axiom, sub_keyword)
    THEN IF Len(operands) < 2 THEN Raised(NotEnoughValues)
         ELSE IF Len(operands) > 2 THEN Raised(TooManyValues)
         ELSE Returned(<<operands[1], operands[2]>>)
    ELSE IF StartsWith(axiom, super_keyword)
    THEN IF Len(operands) < 2 THEN Raised(NotEnoughValues)
         ELSE IF Len(operands) > 2 THEN Raised(TooManyValues)
         ELSE Returned(<<operands[2], operands[1]>>)
    ELSE Raised(UnboundLocalError)    \* neither branch binds the two names

\* the two results of a subsumption axiom, the first one verbalised first
VerbalisedPair(sub, super) ==
    IF sub.error # NoError THEN Raised(sub.error)
    ELSE IF super.error # NoError THEN Raised(super.error)
    ELSE Returned(<<sub, super>>)

\* verbalise_class_subsumption_axiom
VerbaliseClassSubsumptionAxiom(class_subsumption_axiom) ==
    IF ~AxiomInputCheck(class_subsumption_axiom, {SubClassOf, SuperClassOf}) THEN Raised(AssertionError)
    ELSE Bind(Parse(class_subsumption_axiom),
              LAMBDA parsed :
                  IF parsed.pc = "raised" THEN Raised(parsed.err)
                  ELSE IF parsed.children[1] = <<>> THEN Raised(IndexError)
                  ELSE Bind(SubAndSuper(class_subsumption_axiom, parsed.children[parsed.children[1][1]],
                                        SubClassOf, SuperClassOf),
                            LAMBDA chosen :
                                IF chosen.error # NoError THEN chosen
                                ELSE VerbalisedPair(VerbaliseClassExpression(parsed, chosen.values[1]),
                                                    VerbaliseClassExpression(parsed, chosen.values[2]))))

\* verbalise_object_property_subsumption_axiom
VerbaliseObjectPropertySubsumptionAxiom(object_property_subsumption_axiom) ==
    IF ~AxiomInputCheck(object_property_subsumption_axiom,
                        {SubObjectPropertyOf, SuperObjectPropertyOf, SubPropertyChainOf, SuperPropertyChainOf})
    THEN Raised(AssertionError)
    ELSE Bind(Parse(object_property_subsumption_axiom),
              LAMBDA parsed :
                  IF parsed.pc = "raised" THEN Raised(parsed.err)
                  ELSE IF parsed.children[1] = <<>> THEN Raised(IndexError)
                  ELSE Bind(SubAndSuper(object_property_subsumption_axiom,
                                        parsed.children[parsed.children[1][1]],
                                        SubObjectPropertyOf, SuperObjectPropertyOf),
                            LAMBDA chosen :
                                IF chosen.error # NoError THEN chosen
                                ELSE VerbalisedPair(VerbaliseProperty(parsed, chosen.values[1]),
                                                    VerbaliseProperty(parsed, chosen.values[2]))))

\* ---------------------------------------------------------------- inputs of the session model
\* a class subsumption axiom: SubClassOf(<x/A> ObjectSomeValuesFrom(<r> <x/B>))
SubClassOfAxiom ==
    <<"S", "u", "b", "C", "l", "a", "s", "s", "O", "f", "(", "<", "x", "/", "A", ">", " ", "O", "b", "j", "e", "c", "t", "S", "o", "m", "e", "V", "a", "l", "u", "e", "s", "F", "r", "o", "m", "(", "<", "r", ">", " ", "<", "x", "/", "B", ">", ")", ")">>
\* the same operands in a SuperClassOf axiom: SuperClassOf(<x/A> ObjectSomeValuesFrom(<r> <x/B>))
SuperClassOfAxiom ==
    <<"S", "u", "p", "e", "r", "C", "l", "a", "s", "s", "O", "f", "(", "<", "x", "/", "A", ">", " ", "O", "b", "j", "e", "c", "t", "S", "o", "m", "e", "V", "a", "l", "u", "e", "s", "F", "r", "o", "m", "(", "<", "r", ">", " ", "<", "x", "/", "B", ">", ")", ")">>
\* a class subsumption axiom with one operand: SubClassOf(<x/A>)
SubClassOfOne ==
    <<"S", "u", "b", "C", "l", "a", "s", "s", "O", "f", "(", "<", "x", "/", "A", ">", ")">>
\* a class subsumption axiom with three operands: SubClassOf(<x/A> <x/B> <C>)
SubClassOfThree ==
    <<"S", "u", "b", "C", "l", "a", "s", "s", "O", "f", "(", "<", "x", "/", "A", ">", " ", "<", "x", "/", "B", ">", " ", "<", "C", ">", ")">>
\* a class subsumption axiom whose second operand is no class expression: SubClassOf(<x/A> EquivalentClasses(<x/A> <x/B>))
SubClassOfUnsupported ==
    <<"S", "u", "b", "C", "l", "a", "s", "s", "O", "f", "(", "<", "x", "/", "A", ">", " ", "E", "q", "u", "i", "v", "a", "l", "e", "n", "t", "C", "l", "a", "s", "s", "e", "s", "(", "<", "x", "/", "A", ">", " ", "<", "x", "/", "B", ">", ")", ")">>
\* an object property subsumption axiom: SubObjectPropertyOf(<r> <x/B>)
SubObjectPropertyOfAxiom ==
    <<"S", "u", "b", "O", "b", "j", "e", "c", "t", "P", "r", "o", "p", "e", "r", "t", "y", "O", "f", "(", "<", "r", ">", " ", "<", "x", "/", "B", ">", ")">>
\* the same operands in a SuperObjectPropertyOf axiom: SuperObjectPropertyOf(<r> <x/B>)
SuperObjectPropertyOfAxiom ==
    <<"S", "u", "p", "e", "r", "O", "b", "j", "e", "c", "t", "P", "r", "o", "p", "e", "r", "t", "y", "O", "f", "(", "<", "r", ">", " ", "<", "x", "/", "B", ">", ")">>
\* a sub-property axiom on a property chain: SubObjectPropertyOf(ObjectPropertyChain(<r> <x/B>) <r>)
SubPropertyChainOfAxiom ==
    <<"S", "u", "b", "O", "b", "j", "e", "c", "t", "P", "r", "o", "p", "e", "r", "t", "y", "O", "f", "(", "O", "b", "j", "e", "c", "t", "P", "r", "o", "p", "e", "r", "t", "y", "C", "h", "a", "i", "n", "(", "<", "r", ">", " ", "<", "x", "/", "B", ">", ")", " ", "<", "r", ">", ")">>
\* a super-property axiom on a property chain: SuperObjectPropertyOf(ObjectPropertyChain(<r> <x/B>) <r>)
SuperPropertyChainOfAxiom ==
    <<"S", "u", "p", "e", "r", "O", "b", "j", "e", "c", "t", "P", "r", "o", "p", "e", "r", "t", "y", "O", "f", "(", "O", "b", "j", "e", "c", "t", "P", "r", "o", "p", "e", "r", "t", "y", "C", "h", "a", "i", "n", "(", "<", "r", ">", " ", "<", "x", "/", "B", ">", ")", " ", "<", "r", ">", ")">>
\* an axiom of another kind: EquivalentClasses(<x/A> <x/B>)
EquivalentClassesAxiom ==
    <<"E", "q", "u", "i", "v", "a", "l", "e", "n", "t", "C", "l", "a", "s", "s", "e", "s", "(", "<", "x", "/", "A", ">", " ", "<", "x", "/", "B", ">", ")">>


\* an identifier with a name: <x/A>
NamedIdentifier ==
    <<"<", "x", "/", "A", ">">>
\* an identifier without a name: <x/B>
UnnamedIdentifier ==
    <<"<", "x", "/", "B", ">">>
\* the negation of an identifier without a name: [NEG](<x/B>)
NegUnnamed ==
    <<"[", "N", "E", "G", "]", "(", "<", "x", "/", "B", ">", ")">>
\* a junction of an identifier and two restrictions on the same property: [AND](<x/A> [EX.](<r> <x/B>) [EX.](<r> <x/A>))
SessionJunction ==
    <<"[", "A", "N", "D", "]", "(", "<", "x", "/", "A", ">", " ", "[", "E", "X", ".", "]", "(", "<", "r", ">", " ", "<", "x", "/", "B", ">", ")", " ", "[", "E", "X", ".", "]", "(", "<", "r", ">", " ", "<", "x", "/", "A", ">", ")", ")">>

\* the texts passed to parse, to verbalise_class_expression and to the two
\* axiom verbalisers in a session
ParseTexts == {SessionJunction, UnmatchedOpen, SubClassOfAxiom}
ClassTexts == {NamedIdentifier, UnnamedIdentifier, NegUnnamed, SessionJunction, UnmatchedOpen}
ClassAxiomTexts ==
    {SubClassOfAxiom, SuperClassOfAxiom, SubClassOfOne, SubClassOfThree, SubClassOfUnsupported,
     SubObjectPropertyOfAxiom}
PropertyAxiomTexts ==
    {SubObjectPropertyOfAxiom, SuperObjectPropertyOfAxiom, SubPropertyChainOfAxiom,
     SuperPropertyChainOfAxiom, EquivalentClassesAxiom}

\* the arguments of update_entity_name
UpdatedIris == {<<"x", "/", "B">>}
NewNames == {<<"A">>, <<"B">>}

\* ---------------------------------------------------------------- session model
\* one verbaliser and the calls made on it one after the other; every call is
\* taken as a whole. The tree variables hold the tree of the parse made last.
InitSession ==
    /\ vocab = Vocabulary
    /\ keep_iri \in BOOLEAN
    /\ add_quantifier_word \in BOOLEAN
    /\ pc = "idle"
    /\ call = <<>>
    /\ threads = <<>>
    /\ synonym_groups = <<>> /\ neg_num = 0 /\ neg_sample_pool = <<>>
    /\ raw_text = <<>>
    /\ nodes = <<>>
    /\ children = <<>>
    /\ err = NoError
    /\ expr = <<>>
    /\ i = 0
    /\ stack = <<>>
    /\ for_iri = FALSE
    /\ closing_warnings = 0
    /\ result = <<>>

\* the parser state of a call that has not parsed
NotParsed ==
    [nodes |-> <<>>, children |-> <<>>, err |-> NoError, pc |-> "call", expr |-> <<>>,
     i |-> 0, stack |-> <<>>, for_iri |-> FALSE, closing_warnings |-> 0]

\* the call ends: it returns values, or raises error
Outcome(st, error, values) ==
    /\ \E ended \in {[st EXCEPT !.pc = IF error # NoError THEN "raised" ELSE "verbalised",
                                  !.err = error]} : SetParserState(ended)
    /\ result' = IF error # NoError THEN <<>> ELSE values

\* self.vocab[entity_iri] = entity_name keeps the first name of an identifier (mutant)
UpdateEntityNameIfAbsent(names, entity_iri, entity_name) ==
    [iri \in DOMAIN names \cup {entity_iri} |->
        IF iri \in DOMAIN names THEN names[iri] ELSE entity_name]

\* update_entity_name: self.vocab[entity_iri] = entity_name
UpdateEntityName(names, entity_iri, entity_name) ==
    [iri \in DOMAIN names \cup {entity_iri} |->
        IF iri = entity_iri THEN entity_name ELSE names[iri]]

\* parser.parse(text)
ParseCall(text) ==
    /\ \E parsed \in {Parse(text)} : SetParserState(parsed)
    /\ raw_text' = text
    /\ call' = <<"parse", text>>
    /\ result' = <<>>
    /\ UNCHANGED <<vocab, keep_iri, add_quantifier_word, threads, samplingVars>>

\* verbalise_class_expression(text)
VerbaliseClassExpressionCall(text) ==
    /\ \E r \in {VerbaliseText(text)} : Outcome(Parse(text), r.error, <<r>>)
    /\ raw_text' = text
    /\ call' = <<"verbalise_class_expression", text>>
    /\ UNCHANGED <<vocab, keep_iri, add_quantifier_word, threads, samplingVars>>

\* verbalise_class_expression(n) for a node n of the tree that parse returned
VerbaliseNodeCall(n) ==
    /\ pc \in {"parsed", "verbalised"}
    /\ n \in TreeNodes \ {1}
    /\ \E r \in {VerbaliseClassExpression(Tree, n)} : Outcome(ParserState, r.error, <<r>>)
    /\ call' = <<"verbalise_class_expression", nodes[n].text, n>>
    /\ UNCHANGED <<raw_text, vocab, keep_iri, add_quantifier_word, threads, samplingVars>>

\* verbalise_class_subsumption_axiom(text)
ClassSubsumptionAxiomCall(text) ==
    /\ \E r \in {VerbaliseClassSubsumptionAxiom(text)} :
          Outcome(IF r.error = AssertionError THEN NotParsed ELSE Parse(text), r.error, r.values)
    /\ raw_text' = text
    /\ call' = <<"verbalise_class_subsumption_axiom", text>>
    /\ UNCHANGED <<vocab, keep_iri, add_quantifier_word, threads, samplingVars>>

\* verbalise_object_property_subsumption_axiom(text)
ObjectPropertySubsumptionAxiomCall(text) ==
    /\ \E r \in {VerbaliseObjectPropertySubsumptionAxiom(text)} :
          Outcome(IF r.error = AssertionError THEN NotParsed ELSE Parse(text), r.error, r.values)
    /\ raw_text' = text
    /\ call' = <<"verbalise_object_property_subsumption_axiom", text>>
    /\ UNCHANGED <<vocab, keep_iri, add_quantifier_word, threads, samplingVars>>

\* update_entity_name(entity_iri, entity_name)
UpdateEntityNameCall(entity_iri, entity_name) ==
    /\ vocab' = UpdateEntityName(vocab, entity_iri, entity_name)
    /\ call' = <<"update_entity_name", entity_iri, entity_name>>
    /\ UNCHANGED <<treeVars, pc, raw_text, expr, i, stack, for_iri, closing_warnings,
                   keep_iri, add_quantifier_word, result, threads, samplingVars>>

NextSession ==
    \/ \E text \in ParseTexts : ParseCall(text)
    \/ \E text \in ClassTexts : VerbaliseClassExpressionCall(text)
    \/ \E n \in 1..Len(nodes) : VerbaliseNodeCall(n)
    \/ \E text \in ClassAxiomTexts : ClassSubsumptionAxiomCall(text)
    \/ \E text \in PropertyAxiomTexts : ObjectPropertySubsumptionAxiomCall(text)
    \/ \E entity_iri \in UpdatedIris, entity_name \in NewNames : UpdateEntityNameCall(entity_iri, entity_name)

SpecSession == InitSession /\ [][NextSession]_vars

\* ---------------------------------------------------------------- threads model
\* two threads, each making one call verbalise_class_expression(text) on the
\* same verbaliser; a step is one loop iteration of the parse of one thread, or
\* the verbalisation of its tree. The objects a call constructs are reachable
\* from its local variables only, so they are kept with them.
Threads == {1, 2}
ThreadTexts == {NegUnnamed, RestrictionUnknown, UnmatchedOpenIri}

\* the local variables of a call: those of parse, the argument and the result
Locals(st, text) ==
    [raw_text |-> text, result |-> <<>>,
     nodes |-> st.nodes, children |-> st.children, err |-> st.err, pc |-> st.pc, expr |-> st.expr,
     i |-> st.i, stack |-> st.stack, for_iri |-> st.for_iri, closing_warnings |-> st.closing_warnings]

InitThreads ==
    /\ threads = [t \in Threads |-> Locals([NotParsed EXCEPT !.pc = "idle"], <<>>)]
    /\ synonym_groups = <<>> /\ neg_num = 0 /\ neg_sample_pool = <<>>
    /\ vocab = Vocabulary
    /\ keep_iri \in BOOLEAN
    /\ add_quantifier_word \in BOOLEAN
    /\ pc = "idle"
    /\ call = <<>>
    /\ raw_text = <<>>
    /\ nodes = <<>>
    /\ children = <<>>
    /\ err = NoError
    /\ expr = <<>>
    /\ i = 0
    /\ stack = <<>>
    /\ for_iri = FALSE
    /\ closing_warnings = 0
    /\ result = <<>>

\* thread t calls verbalise_class_expression(text): parse up to its loop
ThreadCall(t, text) ==
    /\ threads[t].pc = "idle"
    /\ threads' = [threads EXCEPT ![t] = Locals(StartParse(text), text)]
    /\ UNCHANGED <<treeVars, pc, raw_text, expr, i, stack, for_iri, closing_warnings, call, verbVars, samplingVars>>

\* one iteration of the loop of parse_by_parentheses in thread t
ThreadScan(t) ==
    /\ threads[t].pc = "scan" /\ threads[t].i < Len(threads[t].expr)
    /\ threads' = [threads EXCEPT ![t] = ScanChar(@)]
    /\ UNCHANGED <<treeVars, pc, raw_text, expr, i, stack, for_iri, closing_warnings, call, verbVars, samplingVars>>

\* the end of a pass in thread t
ThreadEndScan(t) ==
    /\ threads[t].pc = "scan" /\ threads[t].i = Len(threads[t].expr)
    /\ threads' = [threads EXCEPT ![t] = EndScan(@)]
    /\ UNCHANGED <<treeVars, pc, raw_text, expr, i, stack, for_iri, closing_warnings, call, verbVars, samplingVars>>

\* thread t verbalises the tree its parse has returned
ThreadVerbalise(t) ==
    /\ threads[t].pc = "parsed"
    /\ \E r \in {IF threads[t].children[1] = <<>> THEN Failure(IndexError)
                  ELSE VerbaliseClassExpression(threads[t], threads[t].children[1][1])} :
          threads' = [threads EXCEPT ![t].pc = IF r.error # NoError THEN "raised" ELSE "verbalised",
                                     ![t].err = r.error,
                                     ![t].result = IF r.error # NoError THEN <<>> ELSE <<r>>]
    /\ UNCHANGED <<treeVars, pc, raw_text, expr, i, stack, for_iri, closing_warnings, call, verbVars, samplingVars>>

NextThreads ==
    \E t \in Threads :
        \/ \E text \in ThreadTexts : ThreadCall(t, text)
        \/ ThreadScan(t)
        \/ ThreadEndScan(t)
        \/ ThreadVerbalise(t)

SpecThreads == InitThreads /\ [][NextThreads]_vars

\* ---------------------------------------------------------------- Thesaurus.random_negative_sampling
MaxGroups == 3    \* largest number of synonym groups
MaxNegNum == 3    \* largest neg_num
Labels == {"a", "b"}

\* deeponto.utils.uniqify: the list without the later copies of its elements
RECURSIVE Uniqify(_)
Uniqify(ls) ==
    IF ls = <<>> THEN <<>>
    ELSE Bind(Uniqify(SubSeq(ls, 1, Len(ls) - 1)),
              LAMBDA front :
                  IF \E k \in 1..Len(front) : front[k] = ls[Len(ls)] THEN front
                  ELSE Append(front, ls[Len(ls)]))

\* the lists of two to MaxGroups non-empty sets of labels
SynonymGroupLists ==
    UNION {[1..m -> (SUBSET Labels) \ {{}}] : m \in 2..MaxGroups}

\* random_negative_sampling(synonym_groups, neg_num) has been called
InitSampling ==
    /\ synonym_groups \in SynonymGroupLists
    /\ neg_num \in 0..MaxNegNum
    /\ neg_sample_pool = <<>>
    /\ pc = "sampling"
    /\ nodes = <<>>
    /\ children = <<>>
    /\ err = NoError
    /\ raw_text = <<>>
    /\ expr = <<>>
    /\ i = 0
    /\ stack = <<>>
    /\ for_iri = FALSE
    /\ closing_warnings = 0
    /\ vocab = <<>>
    /\ keep_iri = FALSE
    /\ add_quantifier_word = FALSE
    /\ result = <<>>
    /\ call = <<"random_negative_sampling">>
    /\ threads = <<>>

\* one turn of the while loop: random.sample picks the groups at two different
\* positions, random.choice one label of each; the pair is appended and the
\* list made unique
SampleTurn(left, right, left_label, right_label) ==
    /\ pc = "sampling"
    /\ Len(neg_sample_pool) < neg_num
    /\ left \in DOMAIN synonym_groups /\ right \in DOMAIN synonym_groups /\ left # right
    /\ left_label \in synonym_groups[left]
    /\ right_label \in synonym_groups[right]
    /\ neg_sample_pool' = Uniqify(Append(neg_sample_pool, <<left_label, right_label>>))
    /\ UNCHANGED <<treeVars, pc, raw_text, expr, i, stack, for_iri, closing_warnings, call, verbVars,
                   threads, synonym_groups, neg_num>>

\* the loop condition is false: the list is returned
SampleReturn ==
    /\ pc = "sampling"
    /\ ~(Len(neg_sample_pool) < neg_num)
    /\ pc' = "returned"
    /\ UNCHANGED <<treeVars, raw_text, expr, i, stack, for_iri, closing_warnings, call, verbVars,
                   threads, samplingVars>>

NextSampling ==
    \/ \E left \in 1..MaxGroups, right \in 1..MaxGroups, left_label \in Labels, right_label \in Labels :
          SampleTurn(left, right, left_label, right_label)
    \/ SampleReturn

\* the draws are random and independent: while some draw can add a pair to
\* the list, such a draw is made at some time; a loop whose condition is false
\* is left
SpecSampling == InitSampling /\ [][NextSampling]_vars /\ WF_vars(NextSampling)

\* ---------------------------------------------------------------- properties of insert_child
Node(n) == nodes[n]
NonRoot == TreeNodes \ {1}

\* C1: inserting a node whose interval equals the interval of a node already
\* in the tree is a no-op: the call returns without raising and the tree
\* (nodes, parent/child relation, order of children) is what it was before.
C1_DuplicateInsertIsNoOp ==
    [][(/\ Len(nodes') = Len(nodes) + 1
        /\ \E n \in TreeNodes : SameInterval(nodes[n], nodes'[Len(nodes')]))
       => (/\ err' = NoError
           /\ children' = Append(children, <<>>))]_vars

\* C2: after successful insertions any two nodes of the tree are nested or
\* disjoint; no two nodes partially overlap.
C2_NoPartialOverlap ==
    err = NoError =>
        \A a \in TreeNodes, b \in TreeNodes :
            \/ Contains(Node(a), Node(b))
            \/ Contains(Node(b), Node(a))
            \/ Disjoint(Node(a), Node(b))

\* a successful tree with a nested pair and a disjoint pair
C2_Witness ==
    /\ err = NoError
    /\ \E a \in NonRoot, b \in NonRoot, c \in NonRoot :
          /\ a # b /\ Contains(Node(a), Node(b))
          /\ Disjoint(Node(b), Node(c))
          /\ Disjoint(Node(a), Node(c))

\* C3: after successful insertions the children of every node are pairwise
\* disjoint and each child's interval lies inside its parent's interval and
\* differs from it (so interval size strictly decreases along every path).
C3_ChildrenDisjointAndStrictlyInside ==
    err = NoError =>
        \A p \in TreeNodes :
            /\ \A j \in 1..Len(children[p]), k \in 1..Len(children[p]) :
                  j # k => Disjoint(Node(children[p][j]), Node(children[p][k]))
            /\ \A k \in 1..Len(children[p]) :
                  LET c == Node(children[p][k])
                  IN  /\ Contains(Node(p), c)
                      /\ ~SameInterval(Node(p), c)
                      /\ c.end - c.start < Node(p).end - Node(p).start

\* a successful tree where a non-root node has two children
C3_Witness ==
    /\ err = NoError
    /\ \E p \in NonRoot : Len(children[p]) >= 2

\* C4: after successful insertions of childless candidates the children list
\* of every node, also of a node that got its children by reparenting, is in
\* strictly ascending order of start offset.
C4_ChildrenSortedByStart ==
    err = NoError =>
        \A p \in TreeNodes :
            \A k \in 1..(Len(children[p]) - 1) :
                Node(children[p][k]).start < Node(children[p][k + 1]).start

\* the root holds two children of which the left one was inserted later, and
\* a node inserted after two existing nodes has taken them over as children
C4_Witness ==
    /\ err = NoError
    /\ Len(children[1]) >= 2 /\ children[1][1] > children[1][2]
    /\ \E p \in NonRoot :
          /\ Len(children[p]) >= 2
          /\ \A k \in 1..Len(children[p]) : children[p][k] < p

\* ---------------------------------------------------------------- properties of the verbaliser
\* the node verbalise_class_expression works on: .children[0] of the root
Top == children[1][1]

IsRestrictionNode(n) ==
    ~Node(n).is_iri /\ (StartsWith(Node(n).name, EX) \/ StartsWith(Node(n).name, ALL))
IsJunctionNode(n) ==
    ~Node(n).is_iri /\ (StartsWith(Node(n).name, AND) \/ StartsWith(Node(n).name, OR3))

\* the call has returned the result of a junction
JunctionVerbalised == pc = "verbalised" /\ IsJunctionNode(Top)

JunctionWord == IF StartsWith(Node(Top).name, AND) THEN <<"a", "n", "d">> ELSE <<"o", "r">>
Separator == <<" ">> \o JunctionWord \o <<" ">>

RestrictionKids == SelectSeq(children[Top], IsRestrictionNode)
OtherKids == SelectSeq(children[Top], LAMBDA n : ~IsRestrictionNode(n))

\* the entries of the result for the restriction groups: those after the other children
Groups == SubSeq(result[1].classes, Len(OtherKids) + 1, Len(result[1].classes))

\* a restriction child verbalised on its own, as the junction does it
KidResult(n) == VerbaliseRestriction(Tree, n, FALSE)
KeyOfKid(n) == <<Slice(Node(n).name, 0, 3), KidResult(n).property[1].verbal>>
KeyOfGroup(g) == <<g.type, g.property[1].verbal>>

\* the positions, among the restriction children, of the members of group g
Members(g) ==
    SelectSeq([k \in 1..Len(RestrictionKids) |-> k],
              LAMBDA k : KeyOfKid(RestrictionKids[k]) = KeyOfGroup(g))

\* the position among all children of the first member of group g
FirstMember(g) ==
    LET at == {k \in 1..Len(children[Top]) :
                  /\ IsRestrictionNode(children[Top][k])
                  /\ KeyOfKid(children[Top][k]) = KeyOfGroup(g)}
    IN  CHOOSE k \in at : \A j \in at : k <= j

\* C5: Scenario 3, the text [AND]([EX.](<r><C1>) [EX.](<r><C2>)) with quantifier
\* words off, is verbalised without error to "something that r C1 and C2".
C5_Scenario3 ==
    (raw_text = Scenario3 /\ ~add_quantifier_word /\ pc \in {"raised", "verbalised"})
        => (/\ pc = "verbalised"
            /\ result[1].verbal = SomethingThat \o <<"r", " ", "C", "1", " ", "a", "n", "d", " ", "C", "2">>)

\* C6: the text of a junction whose children are all restrictions is
\* "something that " followed by the texts of the restriction groups joined by
\* the junction word; it begins with 's', without leading or doubled blank.
C6_RestrictionsOnlyText ==
    (JunctionVerbalised /\ OtherKids = <<>> /\ RestrictionKids # <<>>)
        => LET verbal == result[1].verbal
           IN  /\ verbal = SomethingThat \o Join(Separator, Verbals(Groups))
               /\ Head(verbal) = "s"
               /\ \A k \in 1..(Len(verbal) - 1) : ~(verbal[k] = " " /\ verbal[k + 1] = " ")

C8_GroupsInInputOrder ==
    JunctionVerbalised =>
        /\ \A a \in 1..Len(Groups), b \in 1..Len(Groups) :
              a < b => FirstMember(Groups[a]) < FirstMember(Groups[b])
        /\ \A k \in 1..Len(OtherKids) :
              result[1].classes[k] = VerbaliseClassExpression(Tree, OtherKids[k])

\* C8 as amended: the other children come first in their original order; the
\* existential groups precede the universal groups; groups of the same
\* quantifier kind stand in the order in which their first members occur.
C8_GroupsInInputOrderPerKind ==
    JunctionVerbalised =>
        /\ \A a \in 1..Len(Groups), b \in 1..Len(Groups) :
              a < b =>
                 /\ Groups[a].type = Groups[b].type
                       => FirstMember(Groups[a]) < FirstMember(Groups[b])
                 /\ ~(Groups[a].type = ALL /\ Groups[b].type = EX)
        /\ \A k \in 1..Len(OtherKids) :
              result[1].classes[k] = VerbaliseClassExpression(Tree, OtherKids[k])
        /\ LET verbal == result[1].verbal
               head == Join(Separator, Verbals(SubSeq(result[1].classes, 1, Len(OtherKids))))
               tail == Join(Separator, Verbals(Groups))
           IN  /\ StartsWith(verbal, head)
               /\ Len(verbal) >= Len(tail)
               /\ SubSeq(verbal, Len(verbal) - Len(tail) + 1, Len(verbal)) = tail

\* a universal restriction is the first child, an existential one comes later,
\* and the junction has two existential groups and another child
C8_Witness ==
    /\ JunctionVerbalised
    /\ StartsWith(Node(children[Top][1]).name, ALL)
    /\ \E a \in 1..Len(Groups), b \in 1..Len(Groups) :
          a < b /\ Groups[a].type = EX /\ Groups[b].type = EX
    /\ \E b \in 1..Len(Groups) : Groups[b].type = ALL
    /\ OtherKids # <<>>

\* C9: two restriction children are in the same group iff they have the same
\* quantifier kind and equal verbalised property strings; a group of several
\* members reads as its first member's text followed, for each further
\* member in input order, by " <junction word> " and that member's filler
\* text, and its filler lists all members' fillers in input order; a group of
\* one member is the member's result unchanged.
C9_MergedGroups ==
    JunctionVerbalised =>
        LET kid == [k \in 1..Len(RestrictionKids) |-> KidResult(RestrictionKids[k])]
        IN  /\ Len(Groups) = Cardinality({KeyOfKid(RestrictionKids[k]) : k \in 1..Len(RestrictionKids)})
            /\ \A g \in 1..Len(Groups) :
                  LET m == Members(Groups[g])
                  IN  /\ m # <<>>
                      /\ Len(m) = 1 => Groups[g] = kid[m[1]]
                      /\ Len(m) > 1 =>
                            /\ Groups[g].verbal =
                                  kid[m[1]].verbal
                                  \o Join(<<>>, [j \in 1..(Len(m) - 1) |->
                                                    Separator \o kid[m[j + 1]].class[1].verbal])
                            /\ Groups[g].class[1].classes = [j \in 1..Len(m) |-> kid[m[j]].class[1]]
                            /\ Groups[g].property = kid[m[1]].property

\* two groups on the same property with different quantifiers, one of them
\* merged from several members, next to a group of one member
C9_Witness ==
    /\ JunctionVerbalised
    /\ \E g \in 1..Len(Groups), h \in 1..Len(Groups) :
          /\ Groups[g].type # Groups[h].type
          /\ Groups[g].property[1].verbal = Groups[h].property[1].verbal
          /\ Len(Members(Groups[g])) >= 2
    /\ \E g \in 1..Len(Groups) : Len(Members(Groups[g])) = 1

\* ---------------------------------------------------------------- properties of the parser
\* the number of opening brackets of s that the scan leaves unmatched
RECURSIVE UnmatchedOpening(_, _, _, _)
UnmatchedOpening(s, left, right, open) ==
    IF s = <<>> THEN open
    ELSE IF Head(s) = left THEN UnmatchedOpening(Tail(s), left, right, open + 1)
    ELSE IF Head(s) = right /\ open > 0 THEN UnmatchedOpening(Tail(s), left, right, open - 1)
    ELSE UnmatchedOpening(Tail(s), left, right, open)

\* C10: when a bracket scan ends with an opening bracket left on the stack,
\* parse raises "Too many opening parentheses" and returns no tree; so no
\* text with an unmatched ( or < is ever parsed to a tree.
C10_UnmatchedOpeningRaises ==
    [][/\ (pc = "scan" /\ i = Len(expr) /\ stack # <<>>)
            => (pc' = "raised" /\ err' = TooManyOpening /\ result' = <<>>)
       /\ pc' \in {"parsed", "verbalised"}
            => (/\ UnmatchedOpening(expr', "(", ")", 0) = 0
                /\ UnmatchedOpening(expr', "<", ">", 0) = 0)]_vars

\* the scan over ( ) of a text with exactly one unmatched ( has raised
C10_Witness ==
    /\ pc = "raised" /\ err = TooManyOpening
    /\ ~for_iri /\ i = Len(expr)
    /\ UnmatchedOpening(expr, "(", ")", 0) = 1

\* the number of characters c among s[a..b]
Count(s, c, a, b) == Cardinality({k \in a..b : s[k] = c})

\* the closing brackets that find the opening bracket s[p] on top of the
\* stack or have popped it: one more closing than opening bracket after p
ClosingFor(s, left, right, p) ==
    {q \in (p + 1)..Len(s) :
        s[q] = right /\ Count(s, right, p + 1, q) = Count(s, left, p + 1, q) + 1}

\* the matched bracket pairs <<p, q>> (offsets) of s: the opening bracket at p
\* is popped by the first closing bracket that finds it on top of the stack
MatchedPairs(s, left, right) ==
    {<<p - 1, (CHOOSE q \in ClosingFor(s, left, right, p) :
                  \A r \in ClosingFor(s, left, right, p) : q <= r) - 1>> :
        p \in {k \in 1..Len(s) : s[k] = left /\ ClosingFor(s, left, right, k) # {}}}

\* C11: a closing bracket met while the stack is empty does not abort the
\* parse: no node is created, the tree is unchanged, the scan goes on with the
\* next character, and the tree parse returns has one node for every matched
\* bracket pair of the text.
C11_UnmatchedClosingIgnored ==
    [][/\ (pc = "scan" /\ i < Len(expr) /\ expr[i + 1] = RightPar(for_iri) /\ stack = <<>>)
            => (/\ nodes' = nodes /\ children' = children
                /\ err' = NoError /\ pc' = "scan"
                /\ i' = i + 1 /\ stack' = <<>> /\ for_iri' = for_iri /\ expr' = expr)
       /\ (pc = "scan" /\ pc' = "parsed")
            => (/\ Cardinality(Descendants(children', 1) \ {1})
                      = Cardinality(MatchedPairs(expr', "(", ")"))
                          + Cardinality(MatchedPairs(expr', "<", ">"))
                /\ Len(nodes') = Cardinality(Descendants(children', 1)))]_vars

\* parse has returned a tree with nodes after both passes met an unmatched
\* closing bracket
C11_Witness ==
    /\ pc = "parsed"
    /\ closing_warnings >= 2
    /\ Cardinality(NonRoot) >= 2

\* the rendered tree of the docstring example: every node name with the names
\* of its children in order
DocExampleTree ==
    {
        <<<<"R", "o", "o", "t", "@", "[", "0", ":", "i", "n", "f", "]">>,
          <<<<"E", "Q", "V", "@", "[", "0", ":", "2", "1", "2", "]">>>>>>,
        <<<<"E", "Q", "V", "@", "[", "0", ":", "2", "1", "2", "]">>,
          <<<<"F", "O", "O", "D", "O", "N", "_", "0", "0", "0", "0", "1", "7", "0", "7", "@", "[", "6", ":", "5", "4", "]">>, <<"A", "N", "D", "@", "[", "5", "5", ":", "2", "1", "0", "]">>>>>>,
        <<<<"F", "O", "O", "D", "O", "N", "_", "0", "0", "0", "0", "1", "7", "0", "7", "@", "[", "6", ":", "5", "4", "]">>,
          <<>>>>,
        <<<<"A", "N", "D", "@", "[", "5", "5", ":", "2", "1", "0", "]">>,
          <<<<"F", "O", "O", "D", "O", "N", "_", "0", "0", "0", "0", "2", "0", "4", "4", "@", "[", "6", "1", ":", "1", "0", "9", "]">>, <<"E", "X", ".", "@", "[", "1", "1", "0", ":", "2", "0", "9", "]">>>>>>,
        <<<<"F", "O", "O", "D", "O", "N", "_", "0", "0", "0", "0", "2", "0", "4", "4", "@", "[", "6", "1", ":", "1", "0", "9", "]">>,
          <<>>>>,
        <<<<"E", "X", ".", "@", "[", "1", "1", "0", ":", "2", "0", "9", "]">>,
          <<<<"R", "O", "_", "0", "0", "0", "1", "0", "0", "0", "@", "[", "1", "1", "6", ":", "1", "5", "9", "]">>, <<"F", "O", "O", "D", "O", "N", "_", "0", "3", "4", "1", "2", "1", "1", "6", "@", "[", "1", "6", "0", ":", "2", "0", "8", "]">>>>>>,
        <<<<"R", "O", "_", "0", "0", "0", "1", "0", "0", "0", "@", "[", "1", "1", "6", ":", "1", "5", "9", "]">>,
          <<>>>>,
        <<<<"F", "O", "O", "D", "O", "N", "_", "0", "3", "4", "1", "2", "1", "1", "6", "@", "[", "1", "6", "0", ":", "2", "0", "8", "]">>,
          <<>>>>
    }

\* the names of the nodes of the tree with the names of their children
NamedTree ==
    {<<Node(n).name, [k \in 1..Len(children[n]) |-> Node(children[n][k]).name]>> : n \in TreeNodes}

\* C12: in the tree parse returns, every matched pair ( at p and ) at q of the
\* abbreviated text has an operator node [p - 5, q + 1), every matched pair
\* < at p and > at q an identifier node [p, q + 1) whose name is the text
\* after the last "/" (for an identifier that has one) followed by its range,
\* and the root is [0, inf); the docstring example gives the tree shown there.
C12_NodesOfMatchedPairs ==
    pc \in {"parsed", "verbalised"} =>
        /\ Node(1).start = 0 /\ Node(1).end = Inf
        /\ \A pair \in MatchedPairs(expr, "(", ")") :
              \E n \in NonRoot :
                  /\ ~Node(n).is_iri
                  /\ Node(n).start = pair[1] - 5 /\ Node(n).end = pair[2] + 1
                  /\ expr[Node(n).start + 1] = "["
        /\ \A pair \in MatchedPairs(expr, "<", ">") :
              \E n \in NonRoot :
                  /\ Node(n).is_iri
                  /\ Node(n).start = pair[1] /\ Node(n).end = pair[2] + 1
                  /\ LET slashes == {k \in (pair[1] + 1)..(pair[2] + 1) : expr[k] = "/"}
                     IN  slashes # {} =>
                            LET last == CHOOSE k \in slashes : \A j \in slashes : j <= k
                            IN  Node(n).name = SubSeq(expr, last + 1, pair[2])
                                    \o <<"@", "[">> \o FormatOffset(pair[1])
                                    \o <<":">> \o FormatOffset(pair[2] + 1) \o <<"]">>
        /\ raw_text = DocExample => NamedTree = DocExampleTree

\* parse has returned the tree of the docstring example
C12_Witness ==
    /\ pc = "parsed"
    /\ raw_text = DocExample
    /\ Cardinality(TreeNodes) = 8

\* the replacements of abbreviate_owl_expression taken in the given order of
\* the dictionary entries
RECURSIVE AbbreviateInOrder(_, _)
AbbreviateInOrder(s, order) ==
    IF order = <<>> THEN s
    ELSE Bind(Replace(s, ABBREVIATION_DICT[Head(order)][1], ABBREVIATION_DICT[Head(order)][2]),
              LAMBDA replaced : AbbreviateInOrder(replaced, Tail(order)))

ReverseOrder == [k \in 1..Len(ABBREVIATION_DICT) |-> Len(ABBREVIATION_DICT) + 1 - k]
\* the entries with an even index first
EvenFirstOrder ==
    SelectSeq([k \in 1..Len(ABBREVIATION_DICT) |-> k], LAMBDA k : k % 2 = 0)
        \o SelectSeq([k \in 1..Len(ABBREVIATION_DICT) |-> k], LAMBDA k : k % 2 = 1)

\* keyword k of the dictionary stands in s at index a
KeywordAt(s, k, a) ==
    LET keyword == ABBREVIATION_DICT[k][1]
    IN  a + Len(keyword) - 1 <= Len(s) /\ SubSeq(s, a, a + Len(keyword) - 1) = keyword

\* the occurrences <<k, a>> of keywords in s
KeywordOccurrences(s) ==
    {ka \in (1..Len(ABBREVIATION_DICT)) \X (1..Len(s)) : KeywordAt(s, ka[1], ka[2])}

\* the first pass of parse is over and has not raised
AfterFirstPass == pc = "scan" /\ for_iri /\ i = 0

\* C13: abbreviate_owl_expression replaces every occurrence of every keyword
\* by its tag, every tag is "[" + 3 characters + "]", and so for every keyword
\* followed by "(" in the raw text the node of pass 1 has the 3 inner
\* characters of the keyword's tag as its kind, whatever the order of the
\* replacements.
C13_KeywordsBecomeKinds ==
    AfterFirstPass =>
        /\ \A k \in 1..Len(ABBREVIATION_DICT) :
              LET tag == ABBREVIATION_DICT[k][2]
              IN  Len(tag) = 5 /\ tag[1] = "[" /\ tag[5] = "]"
        /\ KeywordOccurrences(expr) = {}
        /\ Len(expr) = Len(raw_text)
                - (LET occ == KeywordOccurrences(raw_text)
                       Excess[S \in SUBSET occ] ==
                           IF S = {} THEN 0
                           ELSE LET ka == CHOOSE x \in S : TRUE
                                IN  Len(ABBREVIATION_DICT[ka[1]][1]) - 5 + Excess[S \ {ka}]
                   IN  Excess[occ])
        /\ expr = AbbreviateInOrder(raw_text, ReverseOrder)
        /\ expr = AbbreviateInOrder(raw_text, EvenFirstOrder)
        /\ \A ka \in KeywordOccurrences(raw_text) :
              LET k == ka[1]
                  b == ka[2] + Len(ABBREVIATION_DICT[k][1]) - 1
                  p == Len(AbbreviateOwlExpression(SubSeq(raw_text, 1, b)))
              IN  (b < Len(raw_text) /\ raw_text[b + 1] = "(")
                     => /\ expr[p + 1] = "("
                        /\ \E n \in NonRoot :
                              /\ ~Node(n).is_iri
                              /\ Node(n).start = p - 5
                              /\ Slice(Node(n).name, 0, 3) = SubSeq(ABBREVIATION_DICT[k][2], 2, 4)
                              /\ Slice(Node(n).text, 0, 5) = ABBREVIATION_DICT[k][2]

\* the first pass over a text with three keywords is over
C13_Witness ==
    /\ AfterFirstPass
    /\ Cardinality(KeywordOccurrences(raw_text)) >= 3
    /\ Cardinality(NonRoot) >= 3

\* the text of node n put together again: the texts of its children in order
\* and, before, between and after them, the characters of n's own text
Reassembled(n) ==
    LET kids == children[n]
        m == Len(kids)
        own(a, b) == SubSeq(Node(n).text, a - Node(n).start + 1, b - Node(n).start)
        piece(k) ==
            IF k % 2 = 0 THEN Node(kids[k \div 2]).text
            ELSE own(IF k = 1 THEN Node(n).start ELSE Node(kids[(k - 1) \div 2]).end,
                     IF k = 2 * m + 1 THEN Node(n).end ELSE Node(kids[(k + 1) \div 2]).start)
    IN  Join(<<>>, [k \in 1..(2 * m + 1) |-> piece(k)])

\* C14: in a tree returned by parse the text of every node but the root is
\* the slice [start, end) of the abbreviated text; the texts of its children
\* in order, with the characters of its span before, between and after them,
\* give its text again, each child's text being the slice of the node's text
\* at the child's offsets relative to the node's start.
C14_TextIsSpan ==
    pc \in {"parsed", "verbalised"} =>
        \A n \in NonRoot :
            /\ 0 <= Node(n).start /\ Node(n).end <= Len(expr)
            /\ Node(n).text = SubSeq(expr, Node(n).start + 1, Node(n).end)
            /\ Len(Node(n).text) = Node(n).end - Node(n).start
            /\ Reassembled(n) = Node(n).text
            /\ \A k \in 1..Len(children[n]) :
                  LET c == Node(children[n][k])
                  IN  c.text = SubSeq(Node(n).text, c.start - Node(n).start + 1, c.end - Node(n).start)

\* parse has returned a tree in which a node with two children has a child
\* with children of its own
C14_Witness ==
    /\ pc = "parsed"
    /\ \E n \in NonRoot :
          /\ Len(children[n]) >= 2
          /\ \E k \in 1..Len(children[n]) : Len(children[children[n][k]]) >= 2

\* ---------------------------------------------------------------- properties of restrictions and negations
\* V(property) and V(filler) of the restriction node n of the parsed tree
PropertyText(n) == VerbaliseProperty(Tree, children[n][1]).verbal
FillerText(n) == VerbaliseText(Node(children[n][2]).text).verbal

\* what stands between V(property) and V(filler)
QuantifierLink(n) ==
    IF ~add_quantifier_word THEN <<" ">>
    ELSE IF StartsWith(Node(n).name, EX) THEN <<" ", "s", "o", "m", "e", " ">>
    ELSE <<" ", "o", "n", "l", "y", " ">>

\* C15: a restriction verbalised on its own reads "something that " +
\* V(property) + " " + V(filler) without quantifier words, and with them
\* " some " (existential) or " only " (universal) in place of the blank; as a
\* child of a junction it reads the same without "something that ".
C15_RestrictionText ==
    /\ (pc = "verbalised" /\ IsRestrictionNode(Top))
          => /\ result[1].verbal =
                    SomethingThat \o PropertyText(Top) \o QuantifierLink(Top) \o FillerText(Top)
             /\ result[1].type = Slice(Node(Top).name, 0, 3)
    /\ JunctionVerbalised
          => \A g \in 1..Len(Groups) :
                Len(Members(Groups[g])) = 1
                   => LET n == RestrictionKids[Members(Groups[g])[1]]
                      IN  Groups[g].verbal = PropertyText(n) \o QuantifierLink(n) \o FillerText(n)

\* a universal restriction has been verbalised on its own with quantifier words
C15_Witness ==
    /\ pc = "verbalised" /\ IsRestrictionNode(Top)
    /\ StartsWith(Node(Top).name, ALL)
    /\ add_quantifier_word

IsNegationNode(n) == ~Node(n).is_iri /\ StartsWith(Node(n).name, NEG)
Not == <<"n", "o", "t", " ">>

\* C16: the result for a negation node with child C has the text "not "
\* followed by the text of C and the kind NEG, also for a negation under a
\* negation; Scenario 1, [NEG](<http://x/A>) with http://x/A named "A", gives
\* "not A".
C16_Negation ==
    (pc = "verbalised" /\ IsNegationNode(Top))
        => LET child == children[Top][1]
           IN  /\ result[1].type = NEG
               /\ result[1].verbal = Not \o VerbaliseClassExpression(Tree, child).verbal
               /\ Len(result[1].class) = 1
               /\ result[1].verbal = Not \o result[1].class[1].verbal
               /\ IsNegationNode(child)
                     => /\ result[1].class[1].type = NEG
                        /\ result[1].class[1].verbal = Not \o result[1].class[1].class[1].verbal
                        /\ result[1].class[1].class[1].verbal
                              = VerbaliseClassExpression(Tree, children[child][1]).verbal
               /\ raw_text = Scenario1 => result[1].verbal = <<"n", "o", "t", " ", "A">>

\* Scenario 1 has been verbalised
C16_Witness ==
    /\ pc = "verbalised"
    /\ raw_text = Scenario1
    /\ IsNegationNode(Top)

\* ---------------------------------------------------------------- properties of the failures of the verbaliser
\* the nodes of the parsed tree that the verbalisation of node n comes to when
\* nothing fails: n itself, the child of a negation, the filler of a
\* restriction, the children of a junction
RECURSIVE Dispatched(_)
Dispatched(n) ==
    {n} \cup
        (IF Node(n).is_iri THEN {}
         ELSE IF IsNegationNode(n)
         THEN (IF children[n] = <<>> THEN {} ELSE Dispatched(children[n][1]))
         ELSE IF IsRestrictionNode(n)
         THEN (IF Len(children[n]) = 2 THEN Dispatched(children[n][2]) ELSE {})
         ELSE IF IsJunctionNode(n)
         THEN UNION {Dispatched(children[n][k]) : k \in 1..Len(children[n])}
         ELSE {})

RuntimeErrors == {NotARestriction, NotAJunction, NotSupported}

MalformedRestriction(n) == IsRestrictionNode(n) /\ Len(children[n]) # 2

\* C17: verbalising a restriction node that does not have exactly two
\* children (0, 1, 3 or more) fails with a RuntimeError and returns no
\* result, also when the restriction is a child of a junction.
C17_MalformedRestrictionRaises ==
    [][(/\ pc = "parsed" /\ children[1] # <<>>
        /\ \E m \in Dispatched(Top) : MalformedRestriction(m))
       => (/\ pc' = "raised"
           /\ err' \in RuntimeErrors
           /\ (\A m \in Dispatched(Top) : Node(m).is_iri \/ IsNegationNode(m)
                    \/ IsRestrictionNode(m) \/ IsJunctionNode(m)) => err' = NotARestriction
           /\ result' = <<>>)]_vars

\* the verbalisation of a junction has failed on a child that is a
\* restriction with one child
C17_Witness ==
    /\ pc = "raised" /\ err = NotARestriction
    /\ children # <<>> /\ children[1] # <<>>
    /\ IsJunctionNode(Top)
    /\ \E k \in 1..Len(children[Top]) :
          MalformedRestriction(children[Top][k]) /\ Len(children[children[Top][k]]) = 1

UnsupportedKind(n) ==
    /\ ~Node(n).is_iri
    /\ \A kind \in {NEG, EX, ALL, AND, OR3, OPC} : ~StartsWith(Node(n).name, kind)

\* C18: when verbalise_class_expression comes to a node that is no identifier
\* and whose kind is none of NEG, EX., ALL, AND, OR., OPC, at the top or
\* nested in a supported expression, the whole call fails with a RuntimeError
\* and returns no result.
C18_UnsupportedKindRaises ==
    [][(/\ pc = "parsed" /\ children[1] # <<>>
        /\ \E m \in Dispatched(Top) : UnsupportedKind(m))
       => (/\ pc' = "raised"
           /\ err' \in RuntimeErrors
           /\ result' = <<>>)]_vars

\* the call has failed on an axiom kind nested in a supported expression
C18_Witness ==
    /\ pc = "raised" /\ err = NotSupported
    /\ children # <<>> /\ children[1] # <<>>
    /\ ~UnsupportedKind(Top)
    /\ \E m \in Dispatched(Top) : UnsupportedKind(m)

\* ---------------------------------------------------------------- properties of identifiers without a name
\* the results for identifiers inside the result r
RECURSIVE IriResults(_)
IriResults(r) ==
    (IF r.type = IRI THEN {r} ELSE {})
        \cup UNION {IriResults(x) :
                      x \in {(r.property \o r.class \o r.classes \o r.properties)[k] :
                                k \in 1..Len(r.property \o r.class \o r.classes \o r.properties)}}

\* the identifier of node n has no entry in the name lookup
Unnamed(n) == Node(n).is_iri /\ RStrip(LStrip(Node(n).text, "<"), ">") \notin DOMAIN vocab

\* nothing but identifiers without a name stands in the way of verbalising node n
WellFormed(n) ==
    \A m \in Dispatched(n) :
        /\ ~UnsupportedKind(m) /\ ~MalformedRestriction(m)
        /\ IsNegationNode(m) => children[m] # <<>>

\* C19: an identifier without an entry in the name lookup (keep_iri off) does
\* not make the call fail: its result has the identifier's raw text, as it
\* stands in the expression, as surface text, a warning is logged for it, and
\* the enclosing expression is verbalised as usual.
C19_UnnamedIdentifier ==
    [][(/\ pc = "parsed" /\ children[1] # <<>> /\ ~keep_iri
        /\ WellFormed(Top)
        /\ \E m \in Descendants(children, Top) : Unnamed(m))
       => (/\ pc' = "verbalised" /\ err' = NoError /\ Len(result') = 1
           /\ \A r \in IriResults(result'[1]) :
                 IF r.iri \in DOMAIN vocab THEN r.verbal = vocab[r.iri] /\ r.logged = <<>>
                 ELSE /\ r.verbal = <<"<">> \o r.iri \o <<">">>
                      /\ r.logged = <<r.iri>>
                      /\ \E k \in 1..Len(result'[1].logged) : result'[1].logged[k] = r.iri
           /\ \E r \in IriResults(result'[1]) : r.iri \notin DOMAIN vocab
           /\ \A m \in Descendants(children, Top) :
                 (Unnamed(m) /\ m \in Dispatched(Top))
                    => \E a \in 0..Len(result'[1].verbal) :
                          SubSeq(result'[1].verbal, a + 1, a + Len(Node(m).text)) = Node(m).text
           /\ raw_text = RestrictionUnknown =>
                 result'[1].verbal =
                     IF add_quantifier_word
                     THEN SomethingThat \o <<"s", " ", "s", "o", "m", "e", " ", "<", "x", "/", "B", ">">>
                     ELSE SomethingThat \o <<"s", " ", "<", "x", "/", "B", ">">>)]_vars

\* a junction with a child that is an identifier without a name has been
\* verbalised, with a warning for it
C19_Witness ==
    /\ pc = "verbalised"
    /\ IsJunctionNode(Top)
    /\ \E k \in 1..Len(children[Top]) : Unnamed(children[Top][k])
    /\ RestrictionKids # <<>>
    /\ result[1].logged # <<>>

\* ---------------------------------------------------------------- properties of the grouping under permutation
\* the groups the junction node n of tree t puts its restriction children
\* into: quantifier kind, property text and the set of the members' fillers
Grouping(t, n) ==
    LET acc == CollectChildren(t, t.children[n], 1,
                   [error |-> NoError, existential |-> <<>>, universal |-> <<>>, other |-> <<>>,
                    logged |-> <<>>])
        fillers(group) == {group.members[k].class[1] : k \in 1..Len(group.members)}
    IN  {<<EX, acc.existential[j].key, fillers(acc.existential[j])>> : j \in 1..Len(acc.existential)}
            \cup {<<ALL, acc.universal[j].key, fillers(acc.universal[j])>> : j \in 1..Len(acc.universal)}

\* the texts of the children of the verbalised junction
KidTexts == [k \in 1..Len(children[Top]) |-> Node(children[Top][k]).text]

\* the text of the junction with its children a and b exchanged
Exchanged(a, b) ==
    JunctionText(Slice(Node(Top).name, 0, 3),
                 [KidTexts EXCEPT ![a] = KidTexts[b], ![b] = KidTexts[a]])

\* C20: two junction texts that differ only by a permutation of the
\* restriction children are verbalised with the same groups: for every
\* quantifier kind and property the set of fillers of the group is the same
\* (the text of the junction with two restriction children exchanged is
\* parsed and grouped, for every pair of them).
C20_GroupingIsPermutationInvariant ==
    (JunctionVerbalised /\ expr = JunctionText(Slice(Node(Top).name, 0, 3), KidTexts))
        => \A first \in 1..Len(children[Top]), second \in 1..Len(children[Top]) :
              (first < second /\ IsRestrictionNode(children[Top][first])
                              /\ IsRestrictionNode(children[Top][second]))
                 => Bind(Exchanged(first, second),
                         LAMBDA text :
                             Bind(Parse(text),
                                  LAMBDA other :
                                      /\ other.pc = "parsed"
                                      /\ VerbaliseText(text).error = NoError
                                      /\ Grouping(other, other.children[1][1]) = Grouping(Tree, Top)))

\* a verbalised junction of three restrictions, the first and the last on the
\* same property and of the same kind, the second on another property
C20_Witness ==
    /\ JunctionVerbalised
    /\ Len(RestrictionKids) = 3 /\ OtherKids = <<>>
    /\ KeyOfKid(RestrictionKids[1]) = KeyOfKid(RestrictionKids[3])
    /\ KeyOfKid(RestrictionKids[1])[2] # KeyOfKid(RestrictionKids[2])[2]
    /\ KidTexts[1] # KidTexts[3]

\* ---------------------------------------------------------------- properties of the axiom verbalisers
\* an operand text verbalised on its own as a class expression resp. as a property
OperandAsClass(text) == VerbaliseText(text)
OperandAsProperty(text) ==
    Bind(Parse(text), LAMBDA parsed : VerbaliseProperty(parsed, parsed.children[1][1]))

ClassSubsumptionReturned ==
    pc = "verbalised" /\ call # <<>> /\ call[1] = "verbalise_class_subsumption_axiom"
PropertySubsumptionReturned ==
    pc = "verbalised" /\ call # <<>> /\ call[1] = "verbalise_object_property_subsumption_axiom"

\* C21: verbalise_class_subsumption_axiom and
\* verbalise_object_property_subsumption_axiom return the pair (verbalised
\* sub, verbalised super): for a Sub...Of text the first operand comes first,
\* for a Super...Of text the second operand comes first, and each entry is
\* what the operand's text gives when it is verbalised on its own.
C21_SubsumptionPairOrder ==
    (ClassSubsumptionReturned \/ PropertySubsumptionReturned)
        => /\ Len(result) = 2
           /\ Len(children[Top]) = 2
           /\ LET first == Node(children[Top][1]).text
                  second == Node(children[Top][2]).text
                  alone(text) == IF ClassSubsumptionReturned THEN OperandAsClass(text)
                                 ELSE OperandAsProperty(text)
              IN  /\ StartsWith(raw_text, <<"S", "u", "b">>) \/ StartsWith(raw_text, <<"S", "u", "p", "e", "r">>)
                  /\ StartsWith(raw_text, <<"S", "u", "b">>)
                        => result = <<alone(first), alone(second)>>
                  /\ StartsWith(raw_text, <<"S", "u", "p", "e", "r">>)
                        => result = <<alone(second), alone(first)>>

\* a SuperClassOf axiom has returned the restriction, its second operand, as
\* the sub-class and the identifier as the super-class
C21_Witness ==
    /\ ClassSubsumptionReturned
    /\ StartsWith(raw_text, SuperClassOf)
    /\ result[1].type = EX
    /\ result[2].type = IRI
    /\ Node(children[Top][1]).is_iri

\* ---------------------------------------------------------------- properties of the session
Verbalisers ==
    {"verbalise_class_expression", "verbalise_class_subsumption_axiom",
     "verbalise_object_property_subsumption_axiom"}

\* the results of the identifiers in the values the last call returned
ReturnedIriResults(values) == UNION {IriResults(values[k]) : k \in 1..Len(values)}

\* C22: update_entity_name(iri, name) sets the name of iri and of no other
\* identifier and leaves a result returned before untouched; no other call
\* changes a name; so every identifier in the result of a later verbalisation
\* (keep_iri off) has the name of its most recent update as surface text.
C22_UpdatedNameIsUsed ==
    [][/\ (call' # <<>> /\ call'[1] = "update_entity_name")
            => (/\ call'[2] \in DOMAIN vocab'
                /\ vocab'[call'[2]] = call'[3]
                /\ DOMAIN vocab' = DOMAIN vocab \cup {call'[2]}
                /\ \A iri \in DOMAIN vocab \ {call'[2]} : vocab'[iri] = vocab[iri]
                /\ result' = result)
       /\ (call' # <<>> /\ call'[1] # "update_entity_name") => vocab' = vocab
       /\ (call' # <<>> /\ call'[1] \in Verbalisers /\ pc' = "verbalised" /\ ~keep_iri')
            => \A r \in ReturnedIriResults(result') :
                  r.iri \in DOMAIN vocab' => r.verbal = vocab'[r.iri]]_vars

\* a second update of an identifier, made after a verbalisation that used the
\* name of its first update: the result still has the first name
C22_Witness ==
    /\ call # <<>> /\ call[1] = "update_entity_name"
    /\ call[3] = <<"B">> /\ vocab[call[2]] = <<"B">>
    /\ pc = "verbalised"
    /\ \E r \in ReturnedIriResults(result) : r.iri = call[2] /\ r.verbal = <<"A">>

\* ---------------------------------------------------------------- properties of concurrent calls
\* the call of thread t has ended; its parse has returned a tree
Ended(t) == threads[t].pc \in {"verbalised", "raised"}
HasTree(t) == threads[t].pc \in {"parsed", "verbalised"}

\* what the caller of thread t gets: the result, or the exception
ThreadOutcome(t) == <<threads[t].pc, threads[t].err, threads[t].result>>

\* C23: a step of a parse or verbalise call leaves the name lookup and the
\* flags of the verbaliser unchanged; verbalising a tree leaves the tree
\* unchanged; every parse starts from a root of its own without children; a
\* step of one call changes nothing the other call works on; two calls on the
\* same text, however their steps are interleaved, end with equal trees and
\* equal results.
C23_CallsAreIndependent ==
    [][/\ vocab' = vocab /\ keep_iri' = keep_iri /\ add_quantifier_word' = add_quantifier_word
       /\ \A t \in Threads :
             /\ (threads[t].pc = "parsed" /\ threads'[t].pc # "parsed")
                   => (/\ threads'[t].nodes = threads[t].nodes
                       /\ threads'[t].children = threads[t].children)
             /\ (threads[t].pc = "idle" /\ threads'[t].pc # "idle")
                   => (/\ Len(threads'[t].nodes) = 1
                       /\ threads'[t].nodes[1].start = 0 /\ threads'[t].nodes[1].end = Inf
                       /\ threads'[t].children = <<<<>>>>)
             /\ threads'[t] # threads[t] => \A u \in Threads \ {t} : threads'[u] = threads[u]
       /\ \A t \in Threads, u \in Threads :
             threads'[t].raw_text = threads'[u].raw_text
                => (/\ (HasTree(t)' /\ HasTree(u)')
                         => (/\ threads'[t].nodes = threads'[u].nodes
                             /\ threads'[t].children = threads'[u].children)
                    /\ (Ended(t)' /\ Ended(u)') => ThreadOutcome(t)' = ThreadOutcome(u)')]_vars

\* both threads have verbalised the same text, whose tree has a node below
\* the top node, and returned equal results
C23_Witness ==
    /\ \A t \in Threads : threads[t].pc = "verbalised"
    /\ threads[1].raw_text = threads[2].raw_text
    /\ threads[1].result = threads[2].result
    /\ Len(threads[1].nodes) >= 3

\* ---------------------------------------------------------------- properties of reparenting in insert_child
\* the children of node p, of the list kids, that lie inside / outside the interval of cand
KidsInside(ns, kids, cand) == SelectSeq(kids, LAMBDA c : Contains(cand, ns[c]))
KidsOutside(ns, kids, cand) == SelectSeq(kids, LAMBDA c : ~Contains(cand, ns[c]))

\* C24: when a successful insert_child makes the candidate a child of node p,
\* every former child of p whose interval lies inside the candidate's is now
\* a child of the candidate (all of them, in their order), the other former
\* children of p are still children of p, the candidate stands among them at
\* its position by start offset, and no other node's children have changed.
C24_AllContainedChildrenReparented ==
    [][(err' = NoError /\ Len(nodes') = Len(nodes) + 1)
          => \A p \in 1..Len(nodes) :
                \E cand \in {Len(nodes')} :
                   (\E k \in 1..Len(children'[p]) : children'[p][k] = cand)
                      => /\ children'[cand] = KidsInside(nodes, children[p], nodes'[cand])
                         /\ Remove(children'[p], cand) = KidsOutside(nodes, children[p], nodes'[cand])
                         /\ \A k \in 1..(Len(children'[p]) - 1) :
                               nodes'[children'[p][k]].start < nodes'[children'[p][k + 1]].start
                         /\ \A q \in (1..Len(nodes)) \ {p} : children'[q] = children[q]]_vars

\* a node inserted under p has taken over two children of p, and an older
\* child of p has stayed a child of p
C24_Witness ==
    /\ err = NoError
    /\ \E p \in TreeNodes :
          \E j \in 1..Len(children[p]), k \in 1..Len(children[p]) :
             /\ children[p][j] < children[p][k]
             /\ Len(children[children[p][k]]) >= 2
             /\ \A m \in 1..Len(children[children[p][k]]) : children[children[p][k]][m] < children[p][k]

\* ---------------------------------------------------------------- properties of touching intervals
\* C25: two nodes whose half-open intervals are disjoint, also when the end of
\* one is the start of the other, compare as siblings without error in both
\* directions, and a candidate that is disjoint from or nested with every node
\* of the tree is inserted without error.
C25_DisjointIntervalsAccepted ==
    [][Len(nodes') = Len(nodes) + 1
          => \E cand \in {nodes'[Len(nodes')]} :
                /\ \A n \in TreeNodes :
                      Disjoint(cand, nodes[n])
                         => (Gt(cand, nodes[n]) = "irrelevant" /\ Gt(nodes[n], cand) = "irrelevant")
                /\ (\A n \in TreeNodes :
                       \/ Disjoint(cand, nodes[n])
                       \/ Contains(cand, nodes[n]) /\ ~SameInterval(cand, nodes[n])
                       \/ Contains(nodes[n], cand) /\ ~SameInterval(cand, nodes[n]))
                      => err' = NoError]_vars

\* ---------------------------------------------------------------- properties of a raising insert_child
\* C26: when insert_child raises, every node of the tree has the children it
\* had before the call, in the same order, and the rejected candidate has
\* no children.
C26_RaisingInsertLeavesTree ==
    [][(Len(nodes') = Len(nodes) + 1 /\ err' # NoError)
          => (/\ \A n \in 1..Len(nodes) : children'[n] = children[n]
              /\ children'[Len(nodes')] = <<>>)]_vars

\* ---------------------------------------------------------------- properties of re-parsing a node's text
\* the name given to the constructor of a node: its .name without "@[start:end]"
Label(node) ==
    Slice(node.name, 0,
          Len(node.name) - Len(<<"@", "[">> \o FormatOffset(node.start) \o <<":">> \o FormatOffset(node.end) \o <<"]">>))

\* the subtree of node a in tree p is the subtree of node b in tree t moved left by shift
RECURSIVE SameSubtree(_, _, _, _, _)
SameSubtree(p, a, t, b, shift) ==
    /\ p.nodes[a].start = t.nodes[b].start - shift
    /\ p.nodes[a].end = t.nodes[b].end - shift
    /\ p.nodes[a].is_iri = t.nodes[b].is_iri
    /\ Label(p.nodes[a]) = Label(t.nodes[b])
    /\ p.nodes[a].text = t.nodes[b].text
    /\ Len(p.children[a]) = Len(t.children[b])
    /\ \A m \in 1..Len(p.children[a]) : SameSubtree(p, p.children[a][m], t, t.children[b][m], shift)

\* parse has returned the tree of a text whose ( ) and < > all match
ParsedWellBracketed == pc \in {"parsed", "verbalised"} /\ closing_warnings = 0

\* parse of the text of node n gives a root with the shifted subtree of n as its only child
ReparseGivesSubtree(n) ==
    Bind(Parse(Node(n).text),
         LAMBDA again :
             /\ again.pc = "parsed"
             /\ Len(again.children[1]) = 1
             /\ SameSubtree(again, again.children[1][1], Tree, n, Node(n).start))

\* C29: for every node n below the root of the tree of a well-bracketed text,
\* parse(n.text) is a root whose only child has the subtree of n, moved left
\* by n.start; verbalising the text of the filler of a restriction gives what
\* verbalising the filler node gives; abbreviating the abbreviated text
\* changes nothing.
C29_ReparseOfNodeText ==
    ParsedWellBracketed
        => /\ \A n \in NonRoot : ReparseGivesSubtree(n)
           /\ \A n \in NonRoot :
                 (IsRestrictionNode(n) /\ Len(children[n]) = 2)
                    => VerbaliseText(Node(children[n][2]).text)
                          = VerbaliseClassExpression(Tree, children[n][2])
           /\ AbbreviateOwlExpression(expr) = expr

\* ---------------------------------------------------------------- properties of identifiers with unusual names
\* the identifiers of node kids, verbalised through the name lookup
LookedUp(kids) == [k \in 1..Len(kids) |-> VerbaliseIri(Node(kids[k]), FALSE)]

\* C27: when verbalise_class_expression works on a junction whose children
\* are all identifier leaves, whatever their last segments are, the call
\* returns and the junction's result holds, child by child, the results of
\* the name lookup, joined by the junction word.
C27_IdentifierChildrenAreOther ==
    [][(/\ pc = "parsed" /\ pc' # "parsed"
        /\ children[1] # <<>> /\ IsJunctionNode(Top)
        /\ \A k \in 1..Len(children[Top]) : Node(children[Top][k]).is_iri)
          => (/\ pc' = "verbalised"
              /\ result'[1].classes = LookedUp(children[Top])
              /\ result'[1].verbal = Join(Separator, Verbals(LookedUp(children[Top]))))]_vars

\* the identifiers of a text with their brackets: the text of every matched pair < >
Identifiers(text) ==
    {Slice(text, pair[1], pair[2] + 1) : pair \in MatchedPairs(text, "<", ">")}

\* C28: the identifiers between < and > of the abbreviated text are the
\* identifiers of the raw text, every identifier node of the tree carries an
\* identifier of the raw text, and every identifier looked up for the result
\* is an identifier of the raw text.
C28_AbbreviationKeepsIdentifiers ==
    pc \in {"parsed", "verbalised"}
        => /\ Identifiers(expr) = Identifiers(raw_text)
           /\ \A n \in NonRoot : Node(n).is_iri => Node(n).text \in Identifiers(raw_text)
           /\ pc = "verbalised"
                 => \A r \in IriResults(result[1]) : <<"<">> \o r.iri \o <<">">> \in Identifiers(raw_text)

\* ---------------------------------------------------------------- properties of random_negative_sampling
\* the pairs of the list are pairwise distinct and each takes its labels from
\* two different groups
DistinctPairsOfDifferentGroups(pool) ==
    /\ \A j \in 1..Len(pool), k \in 1..Len(pool) : j # k => pool[j] # pool[k]
    /\ \A k \in 1..Len(pool) :
          \E left \in DOMAIN synonym_groups, right \in DOMAIN synonym_groups :
             /\ left # right
             /\ pool[k][1] \in synonym_groups[left]
             /\ pool[k][2] \in synonym_groups[right]

\* C30: for every list of at least two synonym groups and every neg_num >= 0
\* the call returns, and the list it returns has at least neg_num pairs,
\* pairwise distinct, each with its labels from two different groups.
C30_SamplingTerminates ==
    /\ <>(pc = "returned")
    /\ [](pc = "returned"
            => (Len(neg_sample_pool) >= neg_num /\ DistinctPairsOfDifferentGroups(neg_sample_pool)))
====
